---- MODULE Spec2Model ----
(***************************************************************************)
(* A model of monai/data/image_writer.py: the ImageWriter utilities        *)
(* (convert_to_channel_last, convert_to_target_affine, create_data_obj)    *)
(* and the backend writers built on them (ITKWriter, NibabelWriter,        *)
(* PILWriter).                                                             *)
(*                                                                         *)
(* Every operation of the module is a stateless class method.  The state   *)
(* of the model is the last call a client made: which operation, with      *)
(* which arguments, and what it returned (or raised).                      *)
(*                                                                         *)
(* Numbers are exact rationals <<n, d>> (d > 0, lowest terms): the model   *)
(* follows the arithmetic of the code without floating-point rounding.     *)
(* An array is a record [shape, val]: val maps every index tuple           *)
(* (0-based, one entry per axis) to the element stored there.              *)
(***************************************************************************)
EXTENDS Integers, Sequences, FiniteSets, TLC

VARIABLES op, args, ret

vars == <<op, args, ret>>

\* Optional[...] values: None, or Some(x) holding x.  (An affine, a non-empty
\* sequence of rows, is passed as it is: None is the only empty one.)
None == <<>>
Some(x) == <<x>>
Get(o) == o[1]

(***************************************************************************)
(* Exact rational arithmetic.                                              *)
(***************************************************************************)
Abs(x) == IF x < 0 THEN -x ELSE x

RECURSIVE GCD(_, _)
GCD(a, b) == IF b = 0 THEN a ELSE GCD(b, a % b)

Q(n, d) ==
  LET s == IF d < 0 THEN -1 ELSE 1
      g == GCD(Abs(n), Abs(d))
  IN  <<(s * n) \div g, (s * d) \div g>>

QI(n) == <<n, 1>>
QZero == <<0, 1>>
QOne == <<1, 1>>
\* (each operation divides by the common factors first, so that the
\* intermediate products stay small)
QAdd(a, b) ==
  LET g == GCD(a[2], b[2])
  IN  Q(a[1] * (b[2] \div g) + b[1] * (a[2] \div g), (a[2] \div g) * b[2])
QNeg(a) == <<-a[1], a[2]>>
QSub(a, b) == QAdd(a, QNeg(b))
QMul(a, b) ==
  LET g1 == GCD(Abs(a[1]), b[2])
      g2 == GCD(Abs(b[1]), a[2])
  IN  IF a[1] = 0 \/ b[1] = 0 THEN <<0, 1>>
      ELSE <<(a[1] \div g1) * (b[1] \div g2), (a[2] \div g2) * (b[2] \div g1)>>
QInv(a) == Q(a[2], a[1])
QDiv(a, b) == QMul(a, QInv(b))
QAbs(a) == <<Abs(a[1]), a[2]>>
\* (the whole parts decide when they differ; the products of the comparison
\* of the fractional parts stay small)
QLe(a, b) ==
  LET fa == a[1] \div a[2]
      fb == b[1] \div b[2]
      g == GCD(a[2], b[2])
  IN  IF fa # fb THEN fa < fb
      ELSE (a[1] % a[2]) * (b[2] \div g) <= (b[1] % b[2]) * (a[2] \div g)
QLt(a, b) == ~QLe(b, a)
QMin(a, b) == IF QLe(a, b) THEN a ELSE b
QMax(a, b) == IF QLe(a, b) THEN b ELSE a
QFloor(a) == a[1] \div a[2]

RECURSIVE SeqSum(_)
SeqSum(s) == IF s = <<>> THEN QZero ELSE QAdd(Head(s), SeqSum(Tail(s)))

(***************************************************************************)
(* Matrices: a sequence of rows, each a sequence of rationals.             *)
(***************************************************************************)
\* The sequence <<F(1), ..., F(n)>>, written out so that each entry is
\* computed once (n is at most 8).
Vec(n, F(_)) ==
  CASE n = 0 -> <<>>
    [] n = 1 -> <<F(1)>>
    [] n = 2 -> <<F(1), F(2)>>
    [] n = 3 -> <<F(1), F(2), F(3)>>
    [] n = 4 -> <<F(1), F(2), F(3), F(4)>>
    [] n = 5 -> <<F(1), F(2), F(3), F(4), F(5)>>
    [] n = 6 -> <<F(1), F(2), F(3), F(4), F(5), F(6)>>
    [] n = 7 -> <<F(1), F(2), F(3), F(4), F(5), F(6), F(7)>>
    [] n = 8 -> <<F(1), F(2), F(3), F(4), F(5), F(6), F(7), F(8)>>

Mat(n, m, G(_, _)) == LET MatRow(i) == LET MatEntry(j) == G(i, j) IN Vec(m, MatEntry) IN Vec(n, MatRow)

\* F applied to the value of x: x is computed first, and once.
With(x, F(_)) == CHOOSE r \in {F(y) : y \in {x}} : TRUE

NRows(A) == Len(A)
NCols(A) == Len(A[1])
Eye(n) == LET E(i, j) == IF i = j THEN QOne ELSE QZero IN Mat(n, n, E)
Diag(v) == LET E(i, j) == IF i = j THEN v[i] ELSE QZero IN Mat(Len(v), Len(v), E)

RECURSIVE Dot(_, _, _, _)
\* sum over k = 1..n of A[i][k] * B[k][j]
Dot(A, B, ij, n) ==
  IF n = 0 THEN QZero
  ELSE QAdd(Dot(A, B, ij, n - 1), QMul(A[ij[1]][n], B[n][ij[2]]))

RECURSIVE DotVec(_, _, _)
DotVec(row, v, n) == IF n = 0 THEN QZero ELSE QAdd(DotVec(row, v, n - 1), QMul(row[n], v[n]))

MatMulV(A, B) == LET E(i, j) == Dot(A, B, <<i, j>>, NCols(A)) IN Mat(NRows(A), NCols(B), E)
MatMul(A, B) == With(A, LAMBDA a : With(B, LAMBDA b : MatMulV(a, b)))

\* A with row i and column j removed.
Minor(A, i, j) ==
  LET E(r, c) == A[IF r < i THEN r ELSE r + 1][IF c < j THEN c ELSE c + 1]
  IN  Mat(NRows(A) - 1, NCols(A) - 1, E)

\* whether the last row of A is (0, ..., 0, 1)
LastRowUnit(A) ==
  \A j \in 1..NCols(A) : A[NRows(A)][j] = (IF j = NCols(A) THEN QOne ELSE QZero)

\* A without its last row and column
Lead(A) == LET E(i, j) == A[i][j] IN Mat(NRows(A) - 1, NCols(A) - 1, E)

RECURSIVE Det(_)
RECURSIVE DetRow(_, _)
\* the cofactor expansion along the first row, columns 1..j
DetRow(A, j) ==
  IF j = 0 THEN QZero
  ELSE QAdd(DetRow(A, j - 1),
            IF A[1][j] = QZero THEN QZero
            ELSE QMul(IF j % 2 = 1 THEN A[1][j] ELSE QNeg(A[1][j]), Det(Minor(A, 1, j))))
\* (a last row (0, ..., 0, 1) leaves the determinant of the leading block)
Det(A) ==
  IF NRows(A) = 1 THEN A[1][1]
  ELSE IF LastRowUnit(A) THEN Det(Lead(A))
  ELSE DetRow(A, NCols(A))

Singular(A) == Det(A) = QZero

Cofactor(A, i, j) ==
  IF NRows(A) = 1 THEN QOne
  ELSE IF (i + j) % 2 = 0 THEN Det(Minor(A, i, j)) ELSE QNeg(Det(Minor(A, i, j)))

\* the adjugate over the determinant
MatInvDet(A, dt) == LET E(i, j) == QDiv(Cofactor(A, j, i), dt) IN Mat(NRows(A), NRows(A), E)

\* the inverse of [[M, t], [0, 1]] from Minv, the inverse of M:
\* [[Minv, -Minv t], [0, 1]]
MatInvAffine(A, Minv) ==
  LET n == NRows(A)
      t == LET E(i) == A[i][n] IN Vec(n - 1, E)
      E(i, j) == IF i = n THEN (IF j = n THEN QOne ELSE QZero)
                 ELSE IF j = n THEN QNeg(DotVec(Minv[i], t, n - 1))
                 ELSE Minv[i][j]
  IN  Mat(n, n, E)

\* np.linalg.inv, exact; A is not singular.
RECURSIVE MatInv(_)
MatInv(A) ==
  IF NRows(A) > 1 /\ LastRowUnit(A)
  THEN With(MatInv(Lead(A)), LAMBDA Minv : MatInvAffine(A, Minv))
  ELSE With(Det(A), LAMBDA dt : MatInvDet(A, dt))

(***************************************************************************)
(* Arrays (numpy.ndarray): [shape |-> <<d1..dn>>, val |-> index -> element]*)
(* Axes are numbered from 0 as in the code; a negative axis counts from    *)
(* the end.                                                                *)
(***************************************************************************)
RECURSIVE SeqMax(_)
SeqMax(s) == IF s = <<>> THEN 0 ELSE LET m == SeqMax(Tail(s)) IN IF Head(s) > m THEN Head(s) ELSE m

RECURSIVE Prod(_)
Prod(s) == IF s = <<>> THEN 1 ELSE Head(s) * Prod(Tail(s))

\* The position of idx in C (row-major) order.
RECURSIVE RavelIndex(_, _)
RavelIndex(shape, idx) ==
  IF shape = <<>> THEN 0
  ELSE Head(idx) * Prod(Tail(shape)) + RavelIndex(Tail(shape), Tail(idx))

\* The index tuple at position k of C order.
RECURSIVE UnravelIndex(_, _)
UnravelIndex(shape, k) ==
  IF shape = <<>> THEN <<>>
  ELSE <<k \div Prod(Tail(shape))>> \o UnravelIndex(Tail(shape), k % Prod(Tail(shape)))

\* the index tuples of an array of the shape: one entry per axis, each from 0
\* and below the length of its axis
Indices(shape) ==
  LET R(k) == 0..(shape[k] - 1)
  IN  CASE Len(shape) = 0 -> {<<>>}
        [] Len(shape) = 1 -> {<<i>> : i \in R(1)}
        [] Len(shape) = 2 -> R(1) \X R(2)
        [] Len(shape) = 3 -> R(1) \X R(2) \X R(3)
        [] Len(shape) = 4 -> R(1) \X R(2) \X R(3) \X R(4)
        [] Len(shape) = 5 -> R(1) \X R(2) \X R(3) \X R(4) \X R(5)
        [] Len(shape) = 6 -> R(1) \X R(2) \X R(3) \X R(4) \X R(5) \X R(6)

Array(shape, f) == [shape |-> shape, val |-> f]
ndim(a) == Len(a.shape)
\* np.arange(n).reshape(shape)
Arange(shape) == Array(shape, [idx \in Indices(shape) |-> RavelIndex(shape, idx)])
Elements(a) == {a.val[idx] : idx \in Indices(a.shape)}

Raise(kind, what) == [raise |-> kind, what |-> what]
IsRaise(x) == "raise" \in DOMAIN x

\* a Python axis number (possibly negative) as a position 1..n
Axis(n, ax) == (IF ax < 0 THEN ax + n ELSE ax) + 1

\* ndarray.transpose(perm): axis k of the result is axis perm[k] of a (1-based)
Transpose(a, perm) ==
  LET shp == [k \in 1..ndim(a) |-> a.shape[perm[k]]]
      inv == [j \in 1..ndim(a) |-> CHOOSE k \in 1..ndim(a) : perm[k] = j]
  IN  Array(shp, [idx \in Indices(shp) |-> a.val[[j \in 1..ndim(a) |-> idx[inv[j]]]]])

RemoveAt(s, k) == [i \in 1..(Len(s) - 1) |-> IF i < k THEN s[i] ELSE s[i + 1]]
InsertAt(s, k, x) ==
  [i \in 1..(Len(s) + 1) |-> IF i < k THEN s[i] ELSE IF i = k THEN x ELSE s[i - 1]]

\* np.moveaxis(a, source, destination)
moveaxis(a, source, destination) ==
  LET n == ndim(a)
      src == Axis(n, source)
      dst == Axis(n, destination)
      order == InsertAt(RemoveAt([k \in 1..n |-> k], src), dst, src)
  IN  Transpose(a, order)

\* a[..., None] when pos = ndim + 1, a[..., None, :] when pos = ndim:
\* a new axis of length 1 at position pos.
ExpandDims(a, pos) ==
  LET shp == InsertAt(a.shape, pos, 1)
  IN  Array(shp, [idx \in Indices(shp) |-> a.val[RemoveAt(idx, pos)]])

\* a[..., i, ...] : the slice at index i of the axis at position pos.
TakeAt(a, pos, i) ==
  LET shp == RemoveAt(a.shape, pos)
  IN  Array(shp, [idx \in Indices(shp) |-> a.val[InsertAt(idx, pos, i)]])

\* np.squeeze(a, axis) for an axis of length 1
squeeze(a, ax) == TakeAt(a, Axis(ndim(a), ax), 0)

\* a.reshape(shape): same elements in C order
reshape(a, shp) ==
  Array(shp, [idx \in Indices(shp) |-> a.val[UnravelIndex(a.shape, RavelIndex(shp, idx))]])

\* np.flip(a, axis)
flip(a, pos) ==
  Array(a.shape,
        [idx \in Indices(a.shape) |->
           a.val[[k \in 1..ndim(a) |-> IF k = pos THEN a.shape[k] - 1 - idx[k] ELSE idx[k]]]])

(***************************************************************************)
(* ImageWriter.convert_to_channel_last                                     *)
(***************************************************************************)
\* a variant that adds the new axes after the channel axis
RECURSIVE PadSpatialDimsAtEnd(_, _)
PadSpatialDimsAtEnd(data, spatial_ndim) ==
  IF ndim(data) < spatial_ndim + 1
  THEN PadSpatialDimsAtEnd(ExpandDims(data, ndim(data) + 1), spatial_ndim)
  ELSE data

RECURSIVE PadSpatialDims(_, _)
PadSpatialDims(data, spatial_ndim) ==
  IF ndim(data) < spatial_ndim + 1
  THEN PadSpatialDims(ExpandDims(data, ndim(data)), spatial_ndim)
  ELSE data

\* a variant that drops the first axis, not the one before the channel axis
RECURSIVE DropSpatialDimsFirst(_, _)
DropSpatialDimsFirst(data, spatial_ndim) ==
  IF ndim(data) > spatial_ndim + 1
  THEN DropSpatialDimsFirst(TakeAt(data, 1, 0), spatial_ndim)
  ELSE data

RECURSIVE DropSpatialDims(_, _)
DropSpatialDims(data, spatial_ndim) ==
  IF ndim(data) > spatial_ndim + 1
  THEN DropSpatialDims(TakeAt(data, ndim(data) - 1, 0), spatial_ndim)
  ELSE data

\* a variant that removes one axis of length 1 at most
SqueezeEndDimsOnce(data) ==
  IF ndim(data) = 0 THEN Raise("IndexError", "tuple index out of range")
  ELSE IF data.shape[ndim(data)] = 1 THEN squeeze(data, -1)
  ELSE data

\* while squeeze_end_dims and data.shape[-1] == 1: data = np.squeeze(data, -1)
\* data.shape[-1] of an array that has no axis left raises IndexError.
RECURSIVE SqueezeEndDims(_)
SqueezeEndDims(data) ==
  IF ndim(data) = 0 THEN Raise("IndexError", "tuple index out of range")
  ELSE IF data.shape[ndim(data)] = 1 THEN SqueezeEndDims(squeeze(data, -1))
  ELSE data

\* a variant that leaves the channel axis where it is
convert_to_channel_last_unmoved(data, channel_dim, squeeze_end_dims, spatial_ndim) ==
  LET moved == IF channel_dim # None THEN data ELSE ExpandDims(data, ndim(data) + 1)
      sized == IF spatial_ndim # None /\ spatial_ndim # Some(0)
               THEN DropSpatialDims(PadSpatialDims(moved, Get(spatial_ndim)), Get(spatial_ndim))
               ELSE moved
  IN  IF squeeze_end_dims THEN SqueezeEndDims(sized) ELSE sized

convert_to_channel_last(data, channel_dim, squeeze_end_dims, spatial_ndim) ==
  LET moved == IF channel_dim # None THEN moveaxis(data, Get(channel_dim), -1)
               ELSE ExpandDims(data, ndim(data) + 1)
      sized == IF spatial_ndim # None /\ spatial_ndim # Some(0)
               THEN DropSpatialDims(PadSpatialDims(moved, Get(spatial_ndim)), Get(spatial_ndim))
               ELSE moved
  IN  IF squeeze_end_dims THEN SqueezeEndDims(sized) ELSE sized

(***************************************************************************)
(* Affine helpers of monai.data.utils and numpy used by the writer.        *)
(***************************************************************************)
AFFINE_TOL == Q(1, 1000)
\* numpy's default relative tolerance of allclose (rtol=1e-05) and its
\* default absolute tolerance (atol=1e-08)
NP_RTOL == Q(1, 100000)
NP_ATOL == Q(1, 100000000)

\* a variant that takes the absolute tolerance alone
isclose_absolute(a, b, atol) == QLe(QAbs(QSub(a, b)), atol)

\* np.isclose(a, b, rtol, atol): |a - b| <= atol + rtol * |b|, decided as
\* |a - b| <= atol or (|a - b| - atol) / rtol <= |b|, which keeps the numbers
\* small (a difference of 1 or more is beyond any tolerance here when |b| is
\* at most 10000)
isclose(a, b, atol) ==
  LET diff == QAbs(QSub(a, b))
  IN  IF QLe(diff, atol) THEN TRUE
      ELSE IF QLe(QOne, diff) /\ QLe(QAbs(b), QI(10000)) THEN FALSE
      ELSE QLe(QDiv(QSub(diff, atol), NP_RTOL), QAbs(b))

\* np.allclose(A, B, atol=atol) of two matrices of one shape
allclose(A, B, atol) ==
  \A i \in 1..NRows(A) : \A j \in 1..NCols(A) : isclose(A[i][j], B[i][j], atol)

IMin(a, b) == IF a < b THEN a ELSE b
IMax(a, b) == IF a > b THEN a ELSE b

\* to_affine_nd(r, affine): an (r+1)x(r+1) identity whose top-left d x d block
\* is affine's, and (when d > 1) whose translation column is affine's first d
\* translation entries, d = max(min(r, len(affine) - 1), 1).
to_affine_nd(r, affine) ==
  LET d == IMax(IMin(r, NRows(affine) - 1), 1)
      last == NCols(affine)
      E(i, j) == IF i <= d /\ j <= d THEN affine[i][j]
                 ELSE IF i <= d /\ j = r + 1 /\ d > 1 THEN affine[i][last]
                 ELSE IF i = j THEN QOne ELSE QZero
  IN  Mat(r + 1, r + 1, E)

\* ensure_mat44(affine): the affine as a 4x4 matrix
ensure_mat44(affine) == to_affine_nd(3, affine)

\* np.round (round half to even) of a rational, as an integer
RoundHalfEven(a) ==
  LET f == QFloor(a)
      twice == 2 * (a[1] - f * a[2])
  IN  IF twice < a[2] THEN f
      ELSE IF twice > a[2] THEN f + 1
      ELSE IF f % 2 = 0 THEN f ELSE f + 1

RECURSIVE SeqQMax(_)
SeqQMax(s) == IF Len(s) = 1 THEN s[1] ELSE QMax(Head(s), SeqQMax(Tail(s)))
RECURSIVE SeqQMin(_)
SeqQMin(s) == IF Len(s) = 1 THEN s[1] ELSE QMin(Head(s), SeqQMin(Tail(s)))

\* The corners of the index box of a shape, as homogeneous column vectors:
\* np.meshgrid((0, dim - 1) for dim in shape) with a row of ones appended.
Corners(shape) ==
  {[k \in 1..(Len(shape) + 1) |->
      IF k > Len(shape) THEN QOne ELSE IF c[k] = 0 THEN QZero ELSE QI(shape[k] - 1)] :
   c \in [1..Len(shape) -> {0, 1}]}

MatVec(A, v) == LET E(i) == DotVec(A[i], v, Len(v)) IN Vec(NRows(A), E)

\* max - min (np.ptp) of coordinate k over a set of points
Ptp(points, k) ==
  LET xs == {c[k] : c \in points}
      hi == CHOOSE x \in xs : \A y \in xs : QLe(y, x)
      lo == CHOOSE x \in xs : \A y \in xs : QLe(x, y)
  IN  QSub(hi, lo)

ShapeOfCorners(corners_out, sr) ==
  LET E(k) == RoundHalfEven(QAdd(Ptp(corners_out, k), QOne)) IN Vec(sr, E)

ShapeThrough(xform, spatial_shape) ==
  With({MatVec(xform, c) : c \in Corners(spatial_shape)},
       LAMBDA corners_out : [out_shape |-> ShapeOfCorners(corners_out, Len(spatial_shape))])

\* compute_shape_offset(spatial_shape, in_affine, out_affine): the corners
\* of the input box go through in_affine and the inverse of out_affine; the
\* shape is round(ptp + 1) per axis.  The result is [out_shape |-> ..], or
\* what is raised.  (The offset it also returns is dropped by the caller.)
compute_shape_offset(spatial_shape, in_affine, out_affine) ==
  LET sr == Len(spatial_shape)
      in_a == to_affine_nd(sr, in_affine)
      out_a == to_affine_nd(sr, out_affine)
  IN  IF Singular(out_a) THEN Raise("ValueError", "Affine is not invertible")
      ELSE With(MatMul(MatInv(out_a), in_a), LAMBDA xform : ShapeThrough(xform, spatial_shape))

(***************************************************************************)
(* nibabel.orientations.  An orientation is one row <<out_axis, flip>> per *)
(* input axis (axes from 0, flip 1 or -1); NanRow stands for a row of NaN. *)
(***************************************************************************)
NanRow == <<-1, 0>>

Column(A, j, n) == LET E(i) == A[i][j] IN Vec(n, E)

RECURSIVE SumSquares(_, _)
SumSquares(v, n) == IF n = 0 THEN QZero ELSE QAdd(SumSquares(v, n - 1), QMul(v[n], v[n]))

RECURSIVE SumAbs(_, _)
SumAbs(v, n) == IF n = 0 THEN QZero ELSE QAdd(SumAbs(v, n - 1), QAbs(v[n]))

\* np.sqrt of a rational that is a perfect square (every length the model
\* takes a root of is one: its affines have axis-aligned or Pythagorean columns)
ISqrt(n) == CHOOSE k \in 0..IMin(n, 32767) : k * k = n
QSqrt(a) == <<ISqrt(a[1]), ISqrt(a[2])>>

\* RZS = affine[:q, :p]
RZS(affine) ==
  LET E(i, j) == affine[i][j] IN Mat(NRows(affine) - 1, NCols(affine) - 1, E)

\* np.allclose(e / zoom, 0) for an entry e of a column of RZS, where
\* zoom = sqrt(sum(column * column)), or 1 for a column of zeros:
\* |e| <= NP_ATOL * zoom.  The zoom is at most the sum of the absolute values
\* of the column, so an entry above NP_ATOL times that sum is not close to 0;
\* no square root is taken.
CloseToZero(e, column) ==
  \/ e = QZero
  \/ /\ QLe(QDiv(QAbs(e), NP_ATOL), SumAbs(column, Len(column)))
     /\ QLe(QMul(QDiv(e, NP_ATOL), QDiv(e, NP_ATOL)), SumSquares(column, Len(column)))

\* np.argmax(np.abs(col)): the first position (from 1) of the largest entry
ArgMaxAbs(col) ==
  CHOOSE i \in 1..Len(col) :
    /\ \A k \in 1..Len(col) : QLe(QAbs(col[k]), QAbs(col[i]))
    /\ \A k \in 1..(i - 1) : QLt(QAbs(col[k]), QAbs(col[i]))

ZeroRow(R, r) ==
  LET E(i, j) == IF i = r THEN QZero ELSE R[i][j] IN Mat(NRows(R), NCols(R), E)

\* The loop over the input axes in_ax .. p (from 1) of io_orientation.  R is
\* RZS with the rows of the output axes already taken set to 0.  The code
\* loops over the rotation it takes from the SVD of RS = RZS / zooms, which is
\* RS itself when the columns of RS are orthonormal or zero; dividing a column
\* by its zoom changes neither the place nor the sign of its largest entry.
RECURSIVE IoOrientationLoop(_, _, _, _)
IoOrientationLoop(R, rzs, in_ax, p) ==
  IF in_ax > p THEN <<>>
  ELSE LET col == Column(R, in_ax, NRows(R))
           whole == Column(rzs, in_ax, NRows(R))
       IN  IF \A k \in 1..Len(col) : CloseToZero(col[k], whole)
           THEN <<NanRow>> \o IoOrientationLoop(R, rzs, in_ax + 1, p)
           ELSE LET out_ax == ArgMaxAbs(col)
                IN  <<<<out_ax - 1, IF QLt(col[out_ax], QZero) THEN -1 ELSE 1>>>>
                    \o IoOrientationLoop(ZeroRow(R, out_ax), rzs, in_ax + 1, p)

io_orientation(affine) ==
  With(RZS(affine), LAMBDA R : IoOrientationLoop(R, R, 1, NCols(affine) - 1))

\* the first row k (from 1) of start_ornt whose out axis is out_idx, or 0
FirstWithOut(start_ornt, out_idx) ==
  IF \E k \in 1..Len(start_ornt) : start_ornt[k] # NanRow /\ start_ornt[k][1] = out_idx
  THEN CHOOSE k \in 1..Len(start_ornt) :
         /\ start_ornt[k] # NanRow /\ start_ornt[k][1] = out_idx
         /\ \A m \in 1..(k - 1) : ~(start_ornt[m] # NanRow /\ start_ornt[m][1] = out_idx)
  ELSE 0

\* ornt_transform(start_ornt, end_ornt): row start_in of the result is
\* <<end_in, flip>> for the end row with the same out axis.  The result is
\* [ornt |-> ..], or what is raised.
ornt_transform(start_ornt, end_ornt) ==
  IF \E e \in 1..Len(end_ornt) :
       end_ornt[e] = NanRow \/ FirstWithOut(start_ornt, end_ornt[e][1]) = 0
  THEN Raise("ValueError", "Unable to find out axis in start_ornt")
  ELSE LET E(k) ==
             LET e == CHOOSE e \in 1..Len(end_ornt) :
                        FirstWithOut(start_ornt, end_ornt[e][1]) = k
             IN  <<e - 1, IF start_ornt[k][2] = end_ornt[e][2] THEN 1 ELSE -1>>
       IN  [ornt |-> Vec(Len(start_ornt), E)]

RECURSIVE FlipAxes(_, _, _)
\* for ax, flip in enumerate(ornt[:, 1]): if flip == -1: arr = np.flip(arr, ax)
FlipAxes(arr, ornt, ax) ==
  IF ax > Len(ornt) THEN arr
  ELSE FlipAxes(IF ornt[ax][2] = -1 THEN flip(arr, ax) ELSE arr, ornt, ax + 1)

\* apply_orientation(arr, ornt): the flips, then the transpose
\* full_transpose[:n] = argsort(ornt[:, 0])
apply_orientation(arr, ornt) ==
  LET n == Len(ornt)
      full_transpose ==
        [k \in 1..ndim(arr) |->
           IF k <= n THEN CHOOSE ax \in 1..n : ornt[ax][1] = k - 1 ELSE k]
  IN  Transpose(FlipAxes(arr, ornt, 1), full_transpose)

\* inv_ornt_aff(ornt, shape) = undo_flip @ undo_reorder
inv_ornt_aff(ornt, shape) ==
  LET p == Len(ornt)
      Reorder(i, j) == IF i = p + 1 THEN (IF j = p + 1 THEN QOne ELSE QZero)
                       ELSE IF j = ornt[i][1] + 1 THEN QOne ELSE QZero
      center_trans(i) == QNeg(Q(shape[i] - 1, 2))
      Flip(i, j) == IF i = j THEN (IF i = p + 1 THEN QOne ELSE QI(ornt[i][2]))
                    ELSE IF j = p + 1
                    THEN QSub(QMul(QI(ornt[i][2]), center_trans(i)), center_trans(i))
                    ELSE QZero
  IN  MatMul(Mat(p + 1, p + 1, Flip), Mat(p + 1, p + 1, Reorder))

(***************************************************************************)
(* The resample primitive (monai.networks.layers.AffineTransform), which   *)
(* the writer consumes as given.  The batch is channel-first,              *)
(* <<C>> \o spatial; theta maps an output index to an input position; the  *)
(* result is <<C>> \o spatial_size.  The interpolation kernel is outside   *)
(* the writer: here each output element is the input element nearest to    *)
(* the mapped position, clamped to the border ("nearest", "border").       *)
(***************************************************************************)
Clamp(x, lo, hi) == IF x < lo THEN lo ELSE IF x > hi THEN hi ELSE x

SourceIndex(theta, in_shape, idx) ==
  LET n == Len(idx)
      hom == LET H(k) == IF k > n THEN QOne ELSE QI(idx[k]) IN Vec(n + 1, H)
      pos == MatVec(theta, hom)
      S(k) == Clamp(RoundHalfEven(pos[k]), 0, in_shape[k] - 1)
  IN  Vec(n, S)

AffineTransform(batch, theta, spatial_size) ==
  LET shp == <<batch.shape[1]>> \o spatial_size
      in_spatial == Tail(batch.shape)
  IN  Array(shp,
            [idx \in Indices(shp) |->
               batch.val[<<idx[1]>> \o SourceIndex(theta, in_spatial, Tail(idx))]])

(***************************************************************************)
(* ImageWriter.convert_to_target_affine                                    *)
(* The result records, beside the returned (data, affine), the path taken, *)
(* the checks and transformations in the order they ran (steps), and the   *)
(* calls of the resample primitive (resample).                             *)
(***************************************************************************)
Returned(data, affine, path, steps, calls) ==
  [data |-> data, affine |-> affine, path |-> path, steps |-> steps, resample |-> calls]

\* a variant that fills a short shape with its last entry
PadOrCutShapeRepeated(shape, sp_dims) ==
  LET E(k) == IF k <= Len(shape) THEN shape[k] ELSE shape[Len(shape)] IN Vec(sp_dims, E)

\* output_spatial_shape_ += [1] * (sp_dims - len(..)); output_spatial_shape_[:sp_dims]
PadOrCutShape(shape, sp_dims) ==
  LET E(k) == IF k <= Len(shape) THEN shape[k] ELSE 1 IN Vec(sp_dims, E)

FirstN(s, n) == LET E(k) == s[k] IN Vec(IMin(n, Len(s)), E)
DropN(s, n) == LET E(k) == s[n + k] IN Vec(IMax(Len(s) - n, 0), E)

\* a variant that reshapes the array to channel first without moving the axis
ChannelFirstBatchReshaped(data, original_channels) ==
  IF original_channels # <<>>
  THEN reshape(data, <<Prod(original_channels)>> \o FirstN(data.shape, 3))
  ELSE ExpandDims(data, 1)

\* data_np before the resample call: the axes after the third flattened into
\* one and moved to the front, or a new axis in front when there are none
ChannelFirstBatch(data, original_channels) ==
  IF original_channels # <<>>
  THEN moveaxis(reshape(data, FirstN(data.shape, 3) \o <<Prod(original_channels)>>), -1, 0)
  ELSE ExpandDims(data, 1)

\* the part of convert_to_target_affine after "need resampling", given the
\* output shape
ResampleTo(data, affine_, target_affine, output_spatial_shape, steps) ==
  LET sp_dims == IMin(ndim(data), 3)
      output_spatial_shape_ == PadOrCutShape(output_spatial_shape, sp_dims)
      original_channels == DropN(data.shape, 3)
      data_np == ChannelFirstBatch(data, original_channels)
      theta == MatMul(MatInv(affine_), target_affine)
      data_torch == AffineTransform(data_np, theta, output_spatial_shape_)
      out == IF original_channels # <<>>
             THEN reshape(moveaxis(data_torch, 0, -1),
                          FirstN(Tail(data_torch.shape), 3) \o original_channels)
             ELSE TakeAt(data_torch, 1, 0)
  IN  Returned(out, ensure_mat44(target_affine), "resample", steps \o <<"resample">>,
               <<[batch_shape |-> <<1>> \o data_np.shape, theta |-> theta,
                  spatial_size |-> output_spatial_shape_]>>)

\* a variant that keeps the shape of the input when the caller gives none
NeedResamplingSameShape(data, affine_, target_affine, output_spatial_shape, steps) ==
  IF output_spatial_shape = None
  THEN ResampleTo(data, affine_, target_affine, data.shape,
                  steps \o <<"compute_shape_offset">>)
  ELSE ResampleTo(data, affine_, target_affine, Get(output_spatial_shape), steps)

\* "need resampling": the output shape is the caller's, or computed
NeedResampling(data, affine_, target_affine, output_spatial_shape, steps) ==
  IF output_spatial_shape = None
  THEN With(compute_shape_offset(data.shape, affine_, target_affine),
            LAMBDA shp : IF IsRaise(shp) THEN shp
                         ELSE ResampleTo(data, affine_, target_affine, shp.out_shape,
                                         steps \o <<"compute_shape_offset">>))
  ELSE ResampleTo(data, affine_, target_affine, Get(output_spatial_shape), steps)

\* a variant that updates the affine but leaves the array as it was
ReorientedAffineOnly(data, affine, target_affine, output_spatial_shape, ornt) ==
  With(MatMul(affine, inv_ornt_aff(ornt, data.shape)),
       LAMBDA affine_ :
         IF allclose(affine_, target_affine, AFFINE_TOL)
         THEN Returned(data, ensure_mat44(affine_), "orient",
                       <<"allclose", "apply_orientation", "allclose">>, <<>>)
         ELSE NeedResampling(data, affine_, target_affine, output_spatial_shape,
                             <<"allclose", "apply_orientation", "allclose">>))

\* "resolve orientation", from the orientation transform on
Reoriented(data, affine, target_affine, output_spatial_shape, ornt) ==
  With(MatMul(affine, inv_ornt_aff(ornt, data.shape)),
       LAMBDA affine_ :
         IF allclose(affine_, target_affine, AFFINE_TOL)
         THEN Returned(apply_orientation(data, ornt), ensure_mat44(affine_), "orient",
                       <<"allclose", "apply_orientation", "allclose">>, <<>>)
         ELSE NeedResampling(apply_orientation(data, ornt), affine_, target_affine,
                             output_spatial_shape,
                             <<"allclose", "apply_orientation", "allclose">>))

\* a variant that reorients before it compares the affines
ConvertPaddedOrientFirst(data, affine, target_affine, output_spatial_shape) ==
  With(ornt_transform(io_orientation(affine), io_orientation(target_affine)),
       LAMBDA ornt : IF IsRaise(ornt) THEN ornt
                     ELSE Reoriented(data, affine, target_affine, output_spatial_shape,
                                     ornt.ornt))

\* convert_to_target_affine once affine and target_affine are padded to sr
ConvertPadded(data, affine, target_affine, output_spatial_shape) ==
  IF allclose(affine, target_affine, AFFINE_TOL)
  THEN Returned(data, ensure_mat44(target_affine), "fast", <<"allclose">>, <<>>)
  ELSE With(ornt_transform(io_orientation(affine), io_orientation(target_affine)),
            LAMBDA ornt : IF IsRaise(ornt) THEN ornt
                          ELSE Reoriented(data, affine, target_affine,
                                          output_spatial_shape, ornt.ornt))

\* a variant that keeps every axis of the array
SpatialRankUncapped(data) == ndim(data)

\* sr = min(data.ndim, 3)
SpatialRank(data) == IMin(ndim(data), 3)

PaddedAffine(data, affine) ==
  to_affine_nd(SpatialRank(data), IF affine = None THEN Eye(4) ELSE affine)

\* a variant that forgets the target: the affine of the data stands in for it
PaddedTargetForgotten(data, affine, target_affine) == PaddedAffine(data, affine)

PaddedTarget(data, affine, target_affine) ==
  IF target_affine # None THEN to_affine_nd(SpatialRank(data), target_affine)
  ELSE PaddedAffine(data, affine)

convert_to_target_affine(data, affine, target_affine, output_spatial_shape) ==
  With(PaddedAffine(data, affine),
       LAMBDA aff :
         With(PaddedTarget(data, affine, target_affine),
              LAMBDA tgt : ConvertPadded(data, aff, tgt, output_spatial_shape)))

(***************************************************************************)
(* ImageWriter.get_meta_info and ImageWriter.create_data_obj               *)
(***************************************************************************)
Metadata(original_affine, affine, spatial_shape) ==
  [original_affine |-> original_affine, affine |-> affine, spatial_shape |-> spatial_shape]

\* metadata is None (or empty), or a record of the three keys
get_meta_info(metadata) ==
  IF metadata = None THEN Metadata(None, None, None) ELSE metadata

(***************************************************************************)
(* ITKWriter                                                               *)
(***************************************************************************)
\* a variant that flips the first axis only
FlipDiagFirstOnly(sr) ==
  LET E(k) == IF k = 1 THEN -1 ELSE 1 IN Vec(sr + 1, E)

\* flip_d[min(sr - 1, 2)] + [1] * (sr - 3)
FlipDiag(sr) ==
  LET flip_d == <<<<-1, 1>>, <<-1, -1, 1>>, <<-1, -1, 1, 1>>>>
      E(k) == 1
  IN  flip_d[IMin(sr - 1, 2) + 1] \o Vec(IMax(sr - 3, 0), E)

\* a variant that flips nothing
ras_to_lps_unflipped(affine) == affine

\* ITKWriter.ras_to_lps(affine) = np.diag(flip_diag) @ affine
ras_to_lps(affine) ==
  LET sr == IMax(NRows(affine) - 1, 1)
      flip_diag == FlipDiag(sr)
      D(i, j) == IF i = j THEN QI(flip_diag[i]) ELSE QZero
  IN  IF Len(flip_diag) # NRows(affine)
      THEN Raise("ValueError", "matmul: mismatch in core dimension")
      ELSE MatMul(Mat(Len(flip_diag), Len(flip_diag), D), affine)

\* itk.GetImageFromArray(array, is_vector): with is_vector the last axis of
\* the array holds the components of a pixel; the size of the image lists
\* the other axes in reverse order.
Reverse(s) == LET E(k) == s[Len(s) + 1 - k] IN Vec(Len(s), E)

GetImageFromArray(array, is_vector) ==
  [size |-> Reverse(IF is_vector THEN FirstN(array.shape, ndim(array) - 1) ELSE array.shape),
   components |-> IF is_vector THEN array.shape[ndim(array)] ELSE 1,
   buffer |-> array]

\* a variant that adds the absolute values of the column
SpacingSumAbs(A, j, d) ==
  LET z == SumAbs(Column(A, j, d), d) IN IF z = QZero THEN QOne ELSE z

\* spacing = np.sqrt(np.sum(np.square(affine[:d, :d]), 0)); spacing[spacing == 0] = 1.0
Spacing(A, j, d) ==
  LET z == QSqrt(SumSquares(Column(A, j, d), d)) IN IF z = QZero THEN QOne ELSE z

\* ITKWriter.create_backend_obj(data_array, channel_dim, affine, dtype)
ITK_create_backend_obj(data_array, channel_dim, affine) ==
  LET is_vec == channel_dim # None
      moved == IF is_vec THEN moveaxis(data_array, -1, 0) ELSE data_array
      itk_obj == GetImageFromArray(Transpose(moved, Reverse([k \in 1..ndim(moved) |-> k])), is_vec)
      d == Len(itk_obj.size)
      padded == to_affine_nd(d, affine)
      lps == ras_to_lps(padded)
      \* an image without dimensions: the 1 x 1 affine does not fit flip_diag
      mismatch == Len(FlipDiag(IMax(NRows(padded) - 1, 1))) # NRows(padded)
      spacing == LET E(j) == Spacing(lps, j, d) IN Vec(d, E)
      Dir(i, j) == QDiv(lps[i][j], spacing[j])
  IN  IF mismatch THEN lps
      ELSE [size |-> itk_obj.size, components |-> itk_obj.components, buffer |-> itk_obj.buffer,
            spacing |-> spacing,
            origin |-> Column(lps, d + 1, d),
            direction |-> Mat(d, d, Dir)]

(***************************************************************************)
(* NibabelWriter                                                           *)
(***************************************************************************)
\* NibabelWriter.create_backend_obj: Nifti1Image(data_array, affine)
Nibabel_create_backend_obj(data_array, affine) ==
  [dataobj |-> data_array, affine |-> affine]

create_backend_obj(writer, data_array, affine, channel_dim) ==
  IF writer = "ITKWriter" THEN ITK_create_backend_obj(data_array, channel_dim, affine)
  ELSE Nibabel_create_backend_obj(data_array, affine)

\* a variant that takes original_affine for the target whatever `resample` is
create_data_obj_resampling(writer, data_array, metadata, resample, channel_dim, squeeze_end_dims, spatial_ndim) ==
  LET meta == get_meta_info(metadata)
  IN  With(convert_to_channel_last(data_array, channel_dim, squeeze_end_dims, spatial_ndim),
        LAMBDA channel_last :
          IF IsRaise(channel_last) THEN channel_last
          ELSE With(convert_to_target_affine(channel_last, meta.affine, meta.original_affine,
                                             meta.spatial_shape),
                 LAMBDA converted :
                   IF IsRaise(converted) THEN converted
                   ELSE With(create_backend_obj(writer, converted.data, converted.affine,
                                                channel_dim),
                          LAMBDA obj :
                            IF IsRaise(obj) THEN obj
                            ELSE [stages |-> <<"get_meta_info", "convert_to_channel_last",
                                               "convert_to_target_affine", "create_backend_obj">>,
                                  meta |-> meta,
                                  channel_last |-> channel_last,
                                  converted |-> converted,
                                  obj |-> obj])))

\* a variant that converts the array as it was given, not the channel-last one
create_data_obj_unchained(writer, data_array, metadata, resample, channel_dim, squeeze_end_dims, spatial_ndim) ==
  LET meta == get_meta_info(metadata)
  IN  With(convert_to_channel_last(data_array, channel_dim, squeeze_end_dims, spatial_ndim),
        LAMBDA channel_last :
          IF IsRaise(channel_last) THEN channel_last
          ELSE With(convert_to_target_affine(data_array, meta.affine,
                                             IF resample THEN meta.original_affine ELSE None,
                                             meta.spatial_shape),
                 LAMBDA converted :
                   IF IsRaise(converted) THEN converted
                   ELSE With(create_backend_obj(writer, converted.data, converted.affine,
                                                channel_dim),
                          LAMBDA obj :
                            IF IsRaise(obj) THEN obj
                            ELSE [stages |-> <<"get_meta_info", "convert_to_channel_last",
                                               "convert_to_target_affine", "create_backend_obj">>,
                                  meta |-> meta,
                                  channel_last |-> channel_last,
                                  converted |-> converted,
                                  obj |-> obj])))

\* create_data_obj(data_array, metadata, resample, channel_dim,
\*                 squeeze_end_dims, spatial_ndim) of the writer class.
\* The result records the stages that ran, each with what it returned.
create_data_obj(writer, data_array, metadata, resample, channel_dim, squeeze_end_dims, spatial_ndim) ==
  LET meta == get_meta_info(metadata)
  IN  With(convert_to_channel_last(data_array, channel_dim, squeeze_end_dims, spatial_ndim),
        LAMBDA channel_last :
          IF IsRaise(channel_last) THEN channel_last
          ELSE With(convert_to_target_affine(channel_last, meta.affine,
                                             IF resample THEN meta.original_affine ELSE None,
                                             meta.spatial_shape),
                 LAMBDA converted :
                   IF IsRaise(converted) THEN converted
                   ELSE With(create_backend_obj(writer, converted.data, converted.affine,
                                                channel_dim),
                          LAMBDA obj :
                            IF IsRaise(obj) THEN obj
                            ELSE [stages |-> <<"get_meta_info", "convert_to_channel_last",
                                               "convert_to_target_affine", "create_backend_obj">>,
                                  meta |-> meta,
                                  channel_last |-> channel_last,
                                  converted |-> converted,
                                  obj |-> obj])))

(***************************************************************************)
(* PILWriter.resample_and_clip.  The elements of its arrays are rationals. *)
(***************************************************************************)
InterpolateMode == {"nearest", "linear", "bilinear", "bicubic", "trilinear", "area"}

MapArray(a, F(_)) == Array(a.shape, [idx \in Indices(a.shape) |-> F(a.val[idx])])

\* np.clip(data, lo, hi)
clip(data, lo, hi) == LET C(x) == QMax(lo, QMin(x, hi)) IN MapArray(data, C)

ArrayMin(a) == CHOOSE x \in Elements(a) : \A y \in Elements(a) : QLe(x, y)
ArrayMax(a) == CHOOSE x \in Elements(a) : \A y \in Elements(a) : QLe(y, x)

\* monai.transforms.Resize(spatial_size, mode, align_corners) on a
\* channel-first image <<C, H, W>>, which the writer consumes as given.  Each
\* output element is the input element torch's "nearest" rule picks,
\* floor(i * in / out); for the other modes the kernel may move the value
\* off it: by `error`, which is the choice of the kernel and not of the writer.
Resize(img, spatial_size, mode, error) ==
  LET shp == <<img.shape[1]>> \o spatial_size
  IN  Array(shp,
            [idx \in Indices(shp) |->
               LET src == <<idx[1], (idx[2] * img.shape[2]) \div spatial_size[1],
                            (idx[3] * img.shape[3]) \div spatial_size[2]>>
               IN  IF mode = "nearest" THEN img.val[src] ELSE QAdd(img.val[src], error)])

\* a variant that never clips what the resize gives
ResampleBlockUnclipped(data_array, output_spatial_shape, mode, error) ==
  LET data == IF ndim(data_array) = 3 /\ data_array.shape[3] = 1
              THEN squeeze(data_array, 2) ELSE data_array
      align_corners == IF mode \in {"nearest", "area"} THEN None ELSE Some(FALSE)
      resized == IF ndim(data) = 3
                 THEN moveaxis(Resize(moveaxis(data, -1, 0), output_spatial_shape, mode, error), 0, -1)
                 ELSE TakeAt(Resize(ExpandDims(data, 1), output_spatial_shape, mode, error), 1, 0)
  IN  IF mode \notin InterpolateMode THEN Raise("ValueError", mode)
      ELSE [data |-> resized, align_corners |-> align_corners]

\* the block under "if output_spatial_shape is not None"
ResampleBlock(data_array, output_spatial_shape, mode, error) ==
  LET data == IF ndim(data_array) = 3 /\ data_array.shape[3] = 1
              THEN squeeze(data_array, 2) ELSE data_array
      align_corners == IF mode \in {"nearest", "area"} THEN None ELSE Some(FALSE)
      resized == IF ndim(data) = 3
                 THEN moveaxis(Resize(moveaxis(data, -1, 0), output_spatial_shape, mode, error), 0, -1)
                 ELSE TakeAt(Resize(ExpandDims(data, 1), output_spatial_shape, mode, error), 1, 0)
  IN  IF mode \notin InterpolateMode THEN Raise("ValueError", mode)
      ELSE [data |-> IF mode # "nearest" THEN clip(resized, ArrayMin(data), ArrayMax(data))
                     ELSE resized,
            align_corners |-> align_corners]

\* a variant that rounds to the nearest integer
AsUnsignedRounded(x) == RoundHalfEven(x)

\* x.astype(np.uint8) of a non-negative value: the fraction is cut off
AsUnsigned(x) == QFloor(x)

UINT8_MAX == 255
UINT16_MAX == 65535

\* a variant that scales by whatever it is given
ScaleBlockAnyScale(data, scale) ==
  IF scale = None \/ scale = Some(0) THEN [data |-> data, dtype |-> "input"]
  ELSE LET Scaled(x) == AsUnsigned(QMul(QI(Get(scale)), x))
       IN  [data |-> MapArray(clip(data, QZero, QOne), Scaled),
            dtype |-> IF Get(scale) <= UINT8_MAX THEN "uint8" ELSE "uint16"]

\* "scale the data to be in an integer range", from "if not scale" on
ScaleBlock(data, scale) ==
  IF scale = None \/ scale = Some(0) THEN [data |-> data, dtype |-> "input"]
  ELSE LET Scaled(x) == AsUnsigned(QMul(QI(Get(scale)), x))
       IN  IF Get(scale) = UINT8_MAX
           THEN [data |-> MapArray(clip(data, QZero, QOne), Scaled), dtype |-> "uint8"]
           ELSE IF Get(scale) = UINT16_MAX
           THEN [data |-> MapArray(clip(data, QZero, QOne), Scaled), dtype |-> "uint16"]
           ELSE Raise("ValueError", Get(scale))

\* PILWriter.resample_and_clip(data_array, output_spatial_shape, mode, scale);
\* the result is [data, dtype, align_corners], or what is raised.
resample_and_clip(data_array, output_spatial_shape, mode, scale, error) ==
  IF output_spatial_shape = None
  THEN With(ScaleBlock(data_array, scale),
            LAMBDA r : IF IsRaise(r) THEN r
                       ELSE [data |-> r.data, dtype |-> r.dtype, align_corners |-> None])
  ELSE With(ResampleBlock(data_array, Get(output_spatial_shape), mode, error),
            LAMBDA b : IF IsRaise(b) THEN b
                       ELSE With(ScaleBlock(b.data, scale),
                              LAMBDA r : IF IsRaise(r) THEN r
                                         ELSE [data |-> r.data, dtype |-> r.dtype,
                                               align_corners |-> b.align_corners]))

\* PILWriter.get_meta_info(metadata): the spatial_shape, or None
PIL_get_meta_info(metadata) == IF metadata = None THEN None ELSE metadata.spatial_shape

\* PILWriter.create_backend_obj(data_array, dtype=np.uint8,
\* reverse_indexing): the elements as 8-bit integers (of a float the fraction
\* is cut off, of a 16-bit integer the low byte is kept), the first two axes
\* exchanged, as a PIL image
PIL_create_backend_obj(data_array, dtype_in, reverse_indexing) ==
  LET Low(x) == x % (UINT8_MAX + 1)
      cast == IF dtype_in = "input" THEN MapArray(data_array, QFloor)
              ELSE MapArray(data_array, Low)
  IN  [image |-> IF reverse_indexing THEN moveaxis(cast, 0, 1) ELSE cast]

\* PILWriter.create_data_obj(data_array, metadata, resample, channel_dim,
\* squeeze_end_dims, spatial_ndim, kwargs = {mode, scale}).  The result records
\* the stages that ran, each with what it returned.
PIL_create_data_obj(data_array, metadata, resample, channel_dim, squeeze_end_dims, spatial_ndim, mode, scale, error) ==
  LET spatial_shape == PIL_get_meta_info(metadata)
  IN  With(convert_to_channel_last(data_array, channel_dim, squeeze_end_dims, spatial_ndim),
        LAMBDA channel_last :
          IF IsRaise(channel_last) THEN channel_last
          ELSE With(resample_and_clip(channel_last, IF resample THEN spatial_shape ELSE None,
                                      mode, scale, error),
                 LAMBDA clipped :
                   IF IsRaise(clipped) THEN clipped
                   ELSE [stages |-> <<"get_meta_info", "convert_to_channel_last",
                                      "resample_and_clip", "create_backend_obj">>,
                         meta |-> spatial_shape,
                         channel_last |-> channel_last,
                         clipped |-> clipped,
                         obj |-> PIL_create_backend_obj(clipped.data, clipped.dtype, TRUE)]))

(***************************************************************************)
(* The calls a client makes: the arguments each operation is tried on.     *)
(***************************************************************************)
\* the longest axis of the arrays the operations are tried on
MaxAxis == 3
\* the largest translation (in whole units) of the affines they are tried on
MaxShift == 1
\* the side of the square image of the docstring's example
ExampleSide == 20

AxisLens == 2..MaxAxis

\* shapes of rank 1 to 5, with and without axes of length 1
ShapesWith(n) == {<<n>>, <<2, n>>, <<n, 1, 2>>, <<1, 2, 1, n>>, <<1, 1, n, 1, 2>>}
Shapes == UNION {ShapesWith(n) : n \in AxisLens}
AllOnes == {<<1>>, <<1, 1>>, <<1, 1, 1, 1>>}
\* arrays of four axes with more than one channel in front
ChannelFirst4D == {<<2, 1, 2, 2>>, <<2, 2, 1, 1>>}

I4(a, b, c, d) == <<QI(a), QI(b), QI(c), QI(d)>>

\* Affines of every size the tests use (1x1 to 5x5).  The columns of each
\* linear block are orthogonal: axis-aligned, or a rotation with rational
\* entries.
Affines ==
  {<<<<Q(7, 5)>>>>} \cup
  {Diag(<<QI(2), QOne>>)} \cup
  {<<<<QI(2), QZero, QI(t)>>, <<QZero, QI(3), QZero>>, <<QZero, QZero, QOne>>>> :
     t \in 0..MaxShift} \cup
  {<<I4(-2, 0, 0, t), I4(0, 0, 3, -1), I4(0, 2, 0, 1), I4(0, 0, 0, 1)>> : t \in 0..MaxShift} \cup
  {<<I4(3, -4, 0, 1), I4(4, 3, 0, 0), I4(0, 0, 2, 0), I4(0, 0, 0, 1)>>} \cup
  {Diag(<<Q(3, 2), Q(3, 2), Q(3, 2), QOne>>)} \cup
  {Diag(<<Q(7, 5), QI(2), QI(2), QI(3), QI(5)>>)}

\* the targets that have no relation to the affine of the call
OtherTargets ==
  {<<<<Q(7, 5)>>>>, Diag(<<QI(2), QI(2), QI(2), QOne>>),
   Diag(<<QOne, QOne, QOne, QI(3), QI(3)>>)}

\* an affine whose first axis has no extent (its linear block is singular)
SingularAffine == Diag(<<QZero, QOne, QOne, QOne>>)

\* A with x added to the entry in row i, column j
Nudge(A, i, j, x) ==
  LET E(r, c) == IF r = i /\ c = j THEN QAdd(A[r][c], x) ELSE A[r][c]
  IN  Mat(NRows(A), NCols(A), E)

\* The affine of an array of the given shape after axis k (from 1) is
\* flipped: column k is negated and the origin moves to the other end.
FlipCol(A, shape, k) ==
  LET n == NCols(A)
      E(r, c) == IF c = k THEN QNeg(A[r][c])
                 ELSE IF c = n /\ r < NRows(A)
                 THEN QAdd(A[r][c], QMul(A[r][k], QI(shape[k] - 1)))
                 ELSE A[r][c]
  IN  Mat(NRows(A), n, E)

\* The affine after axes i and j are exchanged: columns i and j change place.
SwapCols(A, i, j) ==
  LET E(r, c) == A[r][IF c = i THEN j ELSE IF c = j THEN i ELSE c]
  IN  Mat(NRows(A), NCols(A), E)

ScaleLinear(A, x) ==
  LET E(r, c) == IF r < NRows(A) /\ c < NCols(A) THEN QMul(A[r][c], x) ELSE A[r][c]
  IN  Mat(NRows(A), NCols(A), E)

\* the amounts an entry is moved by: inside, at and beyond AFFINE_TOL
Nudges == {Q(1, 2000), Q(1, 1000), Q(-1, 1000), Q(1, 500)}

\* The targets an (array, affine) pair is tried with, each with the relation
\* it has to the affine (as padded to the rank of the array).
Related(data, affine) ==
  LET P == PaddedAffine(data, affine)
      sr == IMin(ndim(data), 3)
  IN  {<<"none", None>>, <<"same", P>>}
      \cup {<<"nudged", Nudge(P, 1, 1, x)>> : x \in Nudges}
      \cup {<<"nudged", Nudge(P, 1, sr + 1, Q(1, 500))>>}
      \cup {<<"flip", FlipCol(P, data.shape, k)>> : k \in 1..sr}
      \cup {<<"flip", FlipCol(FlipCol(P, data.shape, 1), data.shape, sr)>>}
      \cup {<<"swap", SwapCols(P, 1, k)>> : k \in 2..sr}
      \cup {<<"flipswap", SwapCols(FlipCol(P, data.shape, 1), 1, sr)>>}
      \cup {<<"flipnudged", Nudge(FlipCol(P, data.shape, 1), 1, 1, x)>> :
              x \in {Q(1, 2000), Q(1, 500)}}
      \cup {<<"scaled", ScaleLinear(P, Q(3, 2))>>}
      \cup {<<"other", T>> : T \in OtherTargets \cup {SingularAffine}}

OutputShapes == {None, Some(<<2>>), Some(<<3, 1, 2, 2>>)}
\* an affine with its origin far from 0, and one with all of it near 0
FarAffine == <<I4(2, 0, 0, 1000), I4(0, 2, 0, 0), I4(0, 0, 2, 0), I4(0, 0, 0, 1)>>
NearAffine == Diag(<<QI(2), QI(2), QI(2), QOne>>)
\* a difference just above AFFINE_TOL: 0.00100001
JustAbove == Q(100001, 100000000)

\* Pairs of affines that differ in one entry by more than AFFINE_TOL: the
\* origin of FarAffine moved by 0.002, and an entry 0 of NearAffine moved by
\* JustAbove; each pair in both orders.
ClosePairs ==
  LET far == Nudge(FarAffine, 1, 4, Q(1, 500))
      near == Nudge(NearAffine, 1, 2, JustAbove)
  IN  {<<"far", FarAffine, far>>, <<"far", far, FarAffine>>,
       <<"near", NearAffine, near>>, <<"near", near, NearAffine>>}


\* the shape of test_write_5d: two axes after the third, each longer than 1
Trailing5D == {<<1, 1, 3, 2, 2>>}

\* the pixel sizes of the docstring's example
PixelSizes == {QI(2), Q(3, 2), QI(3)}

TargetAffineCall(data, affine, target_affine, relation, output_spatial_shape) ==
  /\ op = "init"
  /\ op' = "convert_to_target_affine"
  /\ args' = [data |-> data, affine |-> affine, target_affine |-> target_affine,
              relation |-> relation, output_spatial_shape |-> output_spatial_shape]
  /\ ret' = convert_to_target_affine(data, affine, target_affine, output_spatial_shape)

\* convert_to_target_affine on the small arrays with every related target, and
\* on the docstring's example of a square image changing pixel size
CallConvertToTargetAffine ==
  \/ \E a \in PixelSizes, t \in PixelSizes :
       TargetAffineCall(Arange(<<ExampleSide, ExampleSide>>), Diag(<<a, a, QOne>>),
                        Diag(<<t, t, QOne>>), "pixdim", None)
  \/ \E shape \in {<<2, 1, MaxAxis>>, <<1, 2, 1, 2>>}, pair \in ClosePairs :
       TargetAffineCall(Arange(shape), pair[2], pair[3], pair[1], Some(shape))
  \/ \E shape \in Shapes \cup Trailing5D, affine \in Affines \cup {None}, oss \in OutputShapes :
       \E rt \in Related(Arange(shape), affine) :
         TargetAffineCall(Arange(shape), affine, rt[2], rt[1], oss)

\* a 5 x 5 affine: a diagonal, and a translation of the first axis
Affine5(a, b, c, d, e, t) ==
  LET diagonal == <<a, b, c, d, e>>
      E(i, j) == IF i = j THEN diagonal[i] ELSE IF i = 1 /\ j = 5 THEN t ELSE QZero
  IN  Mat(5, 5, E)

\* the affine of test_write_2d, diag(1, 1, 1, 3, 3), and affines that differ
\* from it in the third axis, in the fourth axis and in the first axis
WideAffines ==
  {Affine5(QOne, QOne, QOne, QI(3), QI(3), QZero),
   Affine5(QOne, QOne, QI(7), QI(3), QI(3), QZero),
   Nudge(Affine5(QOne, QOne, QOne, QI(3), QI(3), QZero), 1, 4, QOne),
   Affine5(QI(2), QOne, QOne, QI(3), QI(3), QZero)}

\* the original_affine of test_write_2d, diag(1.4, 2, 1, 3, 5), one that
\* differs from it in the third axis and the corner, and the affine of the
\* test with its first axis flipped, with another fourth axis as well
WideTargets ==
  {None,
   Affine5(Q(7, 5), QI(2), QOne, QI(3), QI(5), QZero),
   Affine5(Q(7, 5), QI(2), QI(4), QI(3), QI(7), QZero),
   Affine5(QI(-1), QOne, QOne, QI(3), QI(3), QZero),
   Affine5(QI(-1), QOne, QOne, QI(5), QI(3), QZero)}

\* the arrays of the two calls: the (1, 5) image of test_write_2d, and arrays
\* of one and of four axes
WideShapes == {<<1, 5>>, <<MaxAxis>>, <<1, 2, 1, MaxAxis>>}

\* two calls of convert_to_target_affine on the same array, with affines and
\* targets of five rows
CallConvertToTargetAffineTwice ==
  \E shape \in WideShapes, affine \in WideAffines, affine2 \in WideAffines,
     target_affine \in WideTargets, target_affine2 \in WideTargets :
    /\ op = "init"
    /\ op' = "convert_to_target_affine twice"
    /\ args' = [data |-> Arange(shape), affine |-> affine, target_affine |-> target_affine,
                affine2 |-> affine2, target_affine2 |-> target_affine2]
    /\ ret' = [first |-> convert_to_target_affine(Arange(shape), affine, target_affine, None),
               second |-> convert_to_target_affine(Arange(shape), affine2, target_affine2, None)]

\* the array of the ITK test, (1, 2, 3, 4), and the one of the docstring of
\* create_data_obj, 8 classes of 64 x 64
ItkTestShape == <<1, 2, 3, 4>>
DocShape == <<8, 64, 64>>

ChannelLastCall(data, channel_dim, squeeze_end_dims, spatial_ndim) ==
  /\ op = "init"
  /\ op' = "convert_to_channel_last"
  /\ args' = [data |-> data, channel_dim |-> channel_dim,
              squeeze_end_dims |-> squeeze_end_dims, spatial_ndim |-> spatial_ndim]
  /\ ret' = convert_to_channel_last(data, channel_dim, squeeze_end_dims, spatial_ndim)

\* convert_to_channel_last on arrays of rank 1 to 5, every place of the
\* channel axis, with and without the squeeze and the spatial padding, and on
\* the example of the docstring (with the defaults of create_data_obj)
CallConvertToChannelLast ==
  \/ \E shape \in Shapes \cup AllOnes \cup ChannelFirst4D \cup {ItkTestShape},
        squeeze_end_dims \in BOOLEAN, spatial_ndim \in {None, Some(0), Some(2), Some(3)} :
       \E channel_dim \in {None} \cup {Some(k) : k \in -1..(Len(shape) - 1)} :
         ChannelLastCall(Arange(shape), channel_dim, squeeze_end_dims, spatial_ndim)
  \/ ChannelLastCall(Arange(DocShape), Some(0), TRUE, Some(3))

\* the affines a metadata dictionary carries
MetaAffines ==
  {<<<<QI(2), QZero, QOne>>, <<QZero, QI(3), QZero>>, <<QZero, QZero, QOne>>>>,
   <<I4(-2, 0, 0, 1), I4(0, 0, 3, -1), I4(0, 2, 0, 1), I4(0, 0, 0, 1)>>,
   Diag(<<QOne, QOne, QI(2), QOne>>)}

Metadatas ==
  {None} \cup
  {Metadata(o, a, s) : o \in MetaAffines \cup {None}, a \in MetaAffines \cup {None},
                       s \in {None, Some(<<2, 2>>)}}

Writers == {"ITKWriter", "NibabelWriter"}

\* one channel in front of one spatial axis
SingleChannel2D == <<1, 2>>

\* create_data_obj of the two writers that convert to a target affine
CallCreateDataObj ==
  \E writer \in Writers, shape \in ShapesWith(MaxAxis) \cup {SingleChannel2D},
     metadata \in Metadatas,
     resample \in BOOLEAN, channel_dim \in {None, Some(0)}, squeeze_end_dims \in BOOLEAN :
    /\ op = "init"
    /\ op' = "create_data_obj"
    /\ args' = [writer |-> writer, data |-> Arange(shape), metadata |-> metadata,
                resample |-> resample, channel_dim |-> channel_dim,
                squeeze_end_dims |-> squeeze_end_dims, spatial_ndim |-> Some(3)]
    /\ ret' = create_data_obj(writer, Arange(shape), metadata, resample, channel_dim,
                              squeeze_end_dims, Some(3))

\* the affine of the ITK test: 1.4 along the first axis
ItkTestAffine == Diag(<<Q(7, 5), QOne, QOne, QOne>>)

\* ITKWriter.create_backend_obj on channel-last arrays
CallITKCreateBackendObj ==
  \E shape \in Shapes \cup {<<2, 2, 2>>}, channel_dim \in {None, Some(0), Some(-1)},
     affine \in Affines \cup {ItkTestAffine, SingularAffine} :
    /\ op = "init"
    /\ op' = "ITKWriter.create_backend_obj"
    /\ args' = [data |-> Arange(shape), channel_dim |-> channel_dim, affine |-> affine]
    /\ ret' = ITK_create_backend_obj(Arange(shape), channel_dim, affine)

\* an n x m matrix with no two entries alike and none of them 0
Ramp(n, m) == LET E(i, j) == QI((i - 1) * m + j) IN Mat(n, m, E)

\* the largest affine ras_to_lps is tried on: 5 x 5, as in the tests
MaxRows == 5

\* ITKWriter.ras_to_lps on the affines of the tests: square ones and ones with
\* a column more than rows
CallRasToLps ==
  \E affine \in Affines \cup {ItkTestAffine}
                \cup {Ramp(n, m) : n \in 1..MaxRows, m \in 1..(MaxRows + 1)} :
    /\ op = "init"
    /\ op' = "ras_to_lps"
    /\ args' = [affine |-> affine]
    /\ ret' = ras_to_lps(affine)

\* The pixel values of the images: binary fractions, which the floating
\* point of the code holds exactly.  Family 1 lies in [0, 1], family 2 also
\* below 0 and above 1, family 3 on odd eighths.
PixelValue(family, k) ==
  CASE family = 1 -> Q(k % 5, 4)
    [] family = 2 -> Q(2 * (k % 4) - 1, 2)
    [] family = 3 -> Q(2 * (k % 5) + 1, 8)

Image(shape, family) ==
  Array(shape, [idx \in Indices(shape) |-> PixelValue(family, RavelIndex(shape, idx))])

ImageShapes == {<<2, 2>>, <<1, MaxAxis>>, <<2, 2, 1>>, <<2, 1, 3>>}

\* the values of the scale argument: none, 0, the two supported and others
Scales == {None, Some(0), Some(1), Some(100), Some(UINT8_MAX), Some(UINT8_MAX + 1),
           Some(UINT16_MAX)}

ResampleAndClipCall(data, output_spatial_shape, mode, scale, error) ==
  /\ op = "init"
  /\ op' = "resample_and_clip"
  /\ args' = [data |-> data, output_spatial_shape |-> output_spatial_shape, mode |-> mode,
              scale |-> scale, error |-> error]
  /\ ret' = resample_and_clip(data, output_spatial_shape, mode, scale, error)

\* PILWriter.resample_and_clip without and with an output shape; "cubic" is
\* not an interpolation mode
CallResampleAndClip ==
  \E shape \in ImageShapes, family \in 1..3, scale \in Scales :
    \/ ResampleAndClipCall(Image(shape, family), None, "bicubic", scale, QZero)
    \/ \E size \in {<<1, 1>>, <<3, 2>>},
          mode \in {"nearest", "area", "bilinear", "bicubic", "cubic"},
          error \in {QZero, Q(1, 4), Q(-1, 4)} :
         ResampleAndClipCall(Image(shape, family), Some(size), mode, scale, error)

\* PILWriter.create_data_obj on channel-first images of 1 and 3 channels,
\* with and without a spatial_shape in the metadata
CallPILCreateDataObj ==
  \E shape \in {<<1, 2, 2>>, <<3, 2, MaxAxis>>}, family \in 1..3,
     metadata \in {None, Metadata(None, None, None), Metadata(None, None, Some(<<3, 2>>))},
     resample \in BOOLEAN, squeeze_end_dims \in BOOLEAN,
     mode \in {"nearest", "bicubic"}, scale \in {Some(100), Some(UINT8_MAX), Some(UINT16_MAX)},
     error \in {QZero, Q(1, 4)} :
    /\ op = "init"
    /\ op' = "PILWriter.create_data_obj"
    /\ args' = [writer |-> "PILWriter", data |-> Image(shape, family), metadata |-> metadata,
                resample |-> resample, channel_dim |-> Some(0),
                squeeze_end_dims |-> squeeze_end_dims, spatial_ndim |-> Some(2),
                mode |-> mode, scale |-> scale, error |-> error]
    /\ ret' = PIL_create_data_obj(Image(shape, family), metadata, resample, Some(0),
                                  squeeze_end_dims, Some(2), mode, scale, error)

Init ==
  /\ op = "init"
  /\ args = <<>>
  /\ ret = <<>>

Next ==
  \/ CallRasToLps
  \/ CallITKCreateBackendObj
  \/ CallResampleAndClip
  \/ CallPILCreateDataObj
  \/ CallConvertToChannelLast
  \/ CallConvertToTargetAffineTwice
  \/ CallCreateDataObj
  \/ CallConvertToTargetAffine

Spec == Init /\ [][Next]_vars

(***************************************************************************)
(* Properties of convert_to_target_affine                                  *)
(***************************************************************************)
Called(name) == op = name

\* A and B have the same size and differ by at most tol in every entry
WithinTol(A, B, tol) ==
  /\ NRows(A) = NRows(B)
  /\ NCols(A) = NCols(B)
  /\ \A i \in 1..NRows(A), j \in 1..NCols(A) : QLe(QAbs(QSub(A[i][j], B[i][j])), tol)

IsAffine44(A) == A # None /\ NRows(A) = 4 /\ NCols(A) = 4 /\ A[4] = I4(0, 0, 0, 1)

\* The 4x4 affine that carries T for an array of `rank` axes: the leading
\* d x d block of T and, when d > 1, the first d entries of its last column,
\* in an identity matrix; d is the least of the rank, 3 and the rows of T less
\* one, and at least 1.
CarriedAffine(T, rank) ==
  LET d == IMax(IMin(IMin(rank, 3), NRows(T) - 1), 1)
      E(i, j) == IF i <= d /\ j <= d THEN T[i][j]
                 ELSE IF i <= d /\ j = 4 /\ d > 1 THEN T[i][NCols(T)]
                 ELSE IF i = j THEN QOne ELSE QZero
  IN  Mat(4, 4, E)

\* the call is convert_to_target_affine with a target that is, at the rank of
\* the data, within AFFINE_TOL of the affine in every entry
FastPathCase ==
  /\ Called("convert_to_target_affine")
  /\ args.target_affine # None
  /\ WithinTol(PaddedAffine(args.data, args.affine),
               PaddedTarget(args.data, args.affine, args.target_affine), AFFINE_TOL)

\* C1 (as the code has it): when affine and target_affine are equal within
\* 1e-3 in every entry, the call returns the data unchanged, compares the
\* affines and does nothing else (no reorientation, no resampling), and the
\* affine it returns is target_affine carried to 4x4 at the rank of the data:
\* target_affine itself when that is a 4x4 affine and the data has 3 axes or
\* more.
C1_FastPath ==
  FastPathCase =>
    /\ ~IsRaise(ret)
    /\ ret.data = args.data
    /\ ret.path = "fast"
    /\ ret.steps = <<"allclose">>
    /\ ret.resample = <<>>
    /\ ret.affine = CarriedAffine(args.target_affine, ndim(args.data))
    /\ (IsAffine44(args.target_affine) /\ ndim(args.data) >= 3
          => ret.affine = args.target_affine)

\* the fast path taken for a target that differs from the affine, on data of
\* 3 axes or more with a 4x4 target
C1_Witness ==
  /\ FastPathCase
  /\ args.relation = "nudged"
  /\ ndim(args.data) >= 3
  /\ IsAffine44(args.target_affine)
  /\ ret.path = "fast"
  /\ ret.affine = args.target_affine
  /\ ret.affine # PaddedAffine(args.data, args.affine)

\* C1 as the claim words it, for the targets that are 4x4 affines: on the fast
\* path the affine returned equals the target_affine of the call
C1_ReturnsTargetItself ==
  FastPathCase /\ IsAffine44(args.target_affine) =>
    ret.data = args.data /\ ret.affine = args.target_affine

\* the orientation transform the call computes from its two affines
CallOrnt ==
  ornt_transform(io_orientation(PaddedAffine(args.data, args.affine)),
                 io_orientation(PaddedTarget(args.data, args.affine, args.target_affine))).ornt

\* where the element at idx of the reoriented array comes from: axis ax of the
\* input becomes axis ornt[ax][1] of the output, read backwards when
\* ornt[ax][2] is -1; the axes after those of ornt stay
OrientedSource(ornt, shape, idx) ==
  LET E(ax) == IF ax > Len(ornt) THEN idx[ax]
               ELSE IF ornt[ax][2] = -1 THEN shape[ax] - 1 - idx[ornt[ax][1] + 1]
               ELSE idx[ornt[ax][1] + 1]
  IN  Vec(Len(shape), E)

ExactlyReoriented(ornt, in, out) ==
  /\ ndim(out) = ndim(in)
  /\ \A ax \in 1..ndim(in) :
       out.shape[IF ax > Len(ornt) THEN ax ELSE ornt[ax][1] + 1] = in.shape[ax]
  /\ \A idx \in Indices(out.shape) : out.val[idx] = in.val[OrientedSource(ornt, in.shape, idx)]

\* The target is the affine with axes flipped and/or exchanged, for an array
\* of 2 axes or more (at 1 axis the padding to the rank of the data leaves the
\* translation of the target out, and a flip moves the translation) and an
\* affine that is invertible at the rank of the data.
FlipOrSwapCase ==
  /\ Called("convert_to_target_affine")
  /\ args.relation \in {"flip", "swap", "flipswap"}
  /\ ndim(args.data) >= 2
  /\ ~Singular(PaddedAffine(args.data, args.affine))

\* C2: when affine and target_affine differ only by axis flips and/or a
\* permutation of axes, the call takes the orientation-only path; and on that
\* path the output is the input rearranged by exactly the permutation and
\* flips of the orientation transform, the resampling primitive is never
\* called and the returned affine is close to the target (np.allclose at 1e-3).
C2_OrientationOnly ==
  Called("convert_to_target_affine") =>
    /\ (FlipOrSwapCase => ~IsRaise(ret) /\ ret.path = "orient")
    /\ (~IsRaise(ret) /\ ret.path = "orient" =>
          /\ ExactlyReoriented(CallOrnt, args.data, ret.data)
          /\ ret.resample = <<>>
          /\ ret.steps = <<"allclose", "apply_orientation", "allclose">>
          /\ allclose(ret.affine,
                      ensure_mat44(PaddedTarget(args.data, args.affine, args.target_affine)),
                      AFFINE_TOL))

\* an axis flipped and two axes exchanged at once: the output is a true
\* rearrangement of the input
C2_Witness ==
  /\ FlipOrSwapCase
  /\ args.relation = "flipswap"
  /\ ndim(args.data) >= 3
  /\ ret.path = "orient"
  /\ ret.data # args.data
  /\ ret.resample = <<>>

\* the first comparison of the call: the affine against the target
FastCheck ==
  allclose(PaddedAffine(args.data, args.affine),
           PaddedTarget(args.data, args.affine, args.target_affine), AFFINE_TOL)

\* the second comparison: the affine after reorientation against the target
OrientCheck ==
  allclose(MatMul(PaddedAffine(args.data, args.affine),
                  inv_ornt_aff(CallOrnt, args.data.shape)),
           PaddedTarget(args.data, args.affine, args.target_affine), AFFINE_TOL)

\* the output holds the values of the input, each as often: the input holds
\* each of its values once
SameValues(in, out) ==
  /\ Prod(out.shape) = Prod(in.shape)
  /\ Elements(out) = Elements(in)

\* C3: in every call that returns, the resampling primitive is invoked (once)
\* if and only if neither the comparison of the fast path nor the one after
\* reorientation succeeds; the paths are tried in the order fast, orientation,
\* resampling, each only after the one before failed; and on the fast and the
\* orientation path the output holds exactly the values of the input.  A call
\* that raises has invoked nothing.
C3_ResampleIffBothFail ==
  Called("convert_to_target_affine") /\ ~IsRaise(ret) =>
    /\ (FastCheck => ret.path = "fast" /\ ret.steps = <<"allclose">>)
    /\ (~FastCheck /\ OrientCheck =>
          ret.path = "orient" /\ ret.steps = <<"allclose", "apply_orientation", "allclose">>)
    /\ (~FastCheck /\ ~OrientCheck =>
          /\ ret.path = "resample"
          /\ FirstN(ret.steps, 3) = <<"allclose", "apply_orientation", "allclose">>
          /\ ret.steps[Len(ret.steps)] = "resample"
          /\ \A k \in 1..(Len(ret.steps) - 1) : ret.steps[k] # "resample")
    /\ (Len(ret.resample) = 1 <=> ~FastCheck /\ ~OrientCheck)
    /\ Len(ret.resample) <= 1
    /\ (ret.path # "resample" => SameValues(args.data, ret.data))

\* both comparisons fail, the primitive is invoked once and the output holds
\* values other than those of the input
C3_Witness ==
  /\ Called("convert_to_target_affine")
  /\ ~IsRaise(ret)
  /\ ~FastCheck
  /\ ~OrientCheck
  /\ Len(ret.resample) = 1
  /\ ret.path = "resample"
  /\ Elements(ret.data) # Elements(args.data)

(***************************************************************************)
(* Properties of create_data_obj                                           *)
(***************************************************************************)
\* a call with resample=False that returned an object
NoResampleCase == Called("create_data_obj") /\ ~args.resample /\ ~IsRaise(ret)

\* a call with resample=False that returned none: ITKWriter was given, with a
\* channel_dim, an array that is canonicalized to one axis
NoResampleRaised ==
  (Called("create_data_obj") /\ ~args.resample /\ IsRaise(ret)) =>
    /\ args.writer = "ITKWriter"
    /\ args.channel_dim # None
    /\ ndim(convert_to_channel_last(args.data, args.channel_dim, args.squeeze_end_dims,
                                    args.spatial_ndim)) = 1

\* the 'affine' of the metadata of the call, or the identity without one
MetaAffine ==
  IF get_meta_info(args.metadata).affine = None THEN Eye(4)
  ELSE get_meta_info(args.metadata).affine

\* C4 (as the code has it): with resample=False, create_data_obj hands the
\* backend the channel-last array unchanged, nothing is reoriented or
\* resampled, and the affine handed over (the affine of the Nibabel object) is
\* the 'affine' of the metadata, or the identity without one, carried to 4x4
\* at the rank of the channel-last array: the 'affine' itself when it is 4x4
\* and the array has 3 axes or more.  'original_affine' has no part in it.
\* The call returns unless ITKWriter is given, with a channel_dim, an array
\* that is canonicalized to one axis.
C4_NoResample ==
  /\ NoResampleRaised
  /\ NoResampleCase =>
       /\ ret.channel_last = convert_to_channel_last(args.data, args.channel_dim,
                                                     args.squeeze_end_dims, args.spatial_ndim)
       /\ ret.converted.data = ret.channel_last
       /\ ret.converted.steps = <<"allclose">>
       /\ ret.converted.resample = <<>>
       /\ ret.converted.affine = CarriedAffine(MetaAffine, ndim(ret.channel_last))
       /\ (IsAffine44(MetaAffine) /\ ndim(ret.channel_last) >= 3
             => ret.converted.affine = MetaAffine)
       /\ (args.writer = "NibabelWriter" =>
             ret.obj.dataobj = ret.channel_last /\ ret.obj.affine = ret.converted.affine)

\* resample=False with an 'original_affine' other than the 'affine': the
\* Nibabel object has the array as canonicalized and the 'affine'
C4_Witness ==
  /\ NoResampleCase
  /\ args.writer = "NibabelWriter"
  /\ args.metadata # None
  /\ args.metadata.affine # None
  /\ args.metadata.original_affine # None
  /\ args.metadata.original_affine # args.metadata.affine
  /\ ndim(ret.channel_last) >= 3
  /\ ret.obj.dataobj = ret.channel_last
  /\ ret.obj.affine = args.metadata.affine
  /\ ret.obj.affine # CarriedAffine(args.metadata.original_affine, ndim(ret.channel_last))

\* C4 as the claim words it, for 4x4 'affine's: with resample=False the affine
\* handed to the backend equals the 'affine' of the metadata
C4_AffineIsMetadataAffine ==
  NoResampleCase /\ IsAffine44(MetaAffine) =>
    /\ ~IsRaise(ret)
    /\ ret.converted.data = ret.channel_last
    /\ ret.converted.affine = MetaAffine

(***************************************************************************)
(* Properties of convert_to_channel_last                                   *)
(***************************************************************************)
ChannelFirstCase == Called("convert_to_channel_last") /\ args.channel_dim = Some(0)

\* the call returned an array, and moving its last axis back to the front
\* gives the array of the call: same shape, same element at every index
RoundTrips == ~IsRaise(ret) /\ moveaxis(ret, -1, 0) = args.data

\* C5 (as the code has it): for every array of rank 1 or more, with
\* channel_dim=0, squeeze_end_dims=False and no spatial_ndim,
\* convert_to_channel_last followed by moving the last axis back to the front
\* reconstructs the array exactly; with the defaults (squeeze_end_dims=True,
\* spatial_ndim=3) it does so exactly for the arrays of rank 4 whose channel
\* axis is longer than 1.
C5_RoundTrip ==
  ChannelFirstCase =>
    /\ (~args.squeeze_end_dims /\ args.spatial_ndim \in {None, Some(0)} => RoundTrips)
    /\ (args.squeeze_end_dims /\ args.spatial_ndim = Some(3) =>
          (RoundTrips <=> ndim(args.data) = 4 /\ args.data.shape[1] > 1))

\* an array of 3 axes or more whose axes the call reorders, restored
C5_Witness ==
  /\ ChannelFirstCase
  /\ ~args.squeeze_end_dims
  /\ args.spatial_ndim = None
  /\ ndim(args.data) >= 3
  /\ ~IsRaise(ret)
  /\ ret # args.data
  /\ moveaxis(ret, -1, 0) = args.data

\* C5 as the claim words it: with channel_dim=0 and the other parameters at
\* their defaults the round trip reconstructs the array
C5_RoundTripWithDefaults ==
  ChannelFirstCase /\ args.squeeze_end_dims /\ args.spatial_ndim = Some(3) => RoundTrips

\* the round trip with the defaults, on an array of rank 4 with 2 channels
C5_DefaultsRestored ==
  /\ ChannelFirstCase
  /\ args.squeeze_end_dims
  /\ args.spatial_ndim = Some(3)
  /\ ret # args.data
  /\ RoundTrips

(***************************************************************************)
(* Properties of PILWriter.resample_and_clip                               *)
(***************************************************************************)
\* the call is resample_and_clip and its mode, if it is looked up, is one
ScaleCase ==
  /\ Called("resample_and_clip")
  /\ (args.output_spatial_shape = None \/ args.mode \in InterpolateMode)

\* C6 (as the code has it): a scale of 255 gives 8-bit data and one of 65535
\* 16-bit data; without a scale, or with a scale of 0, the data is returned as
\* it is, not scaled and with no error; every other scale raises ValueError
\* with the value in it.
C6_SupportedScales ==
  ScaleCase =>
    /\ (args.scale = Some(255) => ~IsRaise(ret) /\ ret.dtype = "uint8")
    /\ (args.scale = Some(65535) => ~IsRaise(ret) /\ ret.dtype = "uint16")
    /\ (args.scale \in {None, Some(0)} =>
          /\ ~IsRaise(ret)
          /\ ret.dtype = "input"
          /\ (args.output_spatial_shape = None => ret.data = args.data))
    /\ (args.scale \notin {None, Some(0), Some(255), Some(65535)} =>
          ret = Raise("ValueError", Get(args.scale)))

\* the scale of the test, 100, is refused by name
C6_Witness ==
  /\ ScaleCase
  /\ args.scale = Some(100)
  /\ IsRaise(ret)
  /\ ret.raise = "ValueError"
  /\ ret.what = 100

\* C6 as the claim words it: every scale that is a number other than 255 and
\* 65535 raises ValueError with the value
C6_EveryOtherScaleRaises ==
  ScaleCase /\ args.scale # None /\ args.scale \notin {Some(255), Some(65535)} =>
    ret = Raise("ValueError", Get(args.scale))

\* data in [0, 1], scaled by 255, with no output shape
UnitDataCase ==
  /\ ScaleCase
  /\ args.scale = Some(255)
  /\ args.output_spatial_shape = None
  /\ \A x \in Elements(args.data) : QLe(QZero, x) /\ QLe(x, QOne)

\* C7 (as the code has it): with scale=255 and data in [0, 1], each element x
\* comes out as the 8-bit integer 255*x with its fraction cut off: the greatest
\* integer not above 255*x.  In particular 0.5 comes out as 127.
C7_ScaledTruncated ==
  UnitDataCase =>
    /\ ~IsRaise(ret)
    /\ ret.dtype = "uint8"
    /\ ret.data.shape = args.data.shape
    /\ \A idx \in Indices(args.data.shape) :
         LET x == args.data.val[idx]
             y == ret.data.val[idx]
         IN  /\ y \in 0..255
             /\ QLe(QI(y), QMul(QI(255), x))
             /\ QLt(QMul(QI(255), x), QI(y + 1))
             /\ (x = Q(1, 2) => y = 127)

\* an image that holds 0.5, which comes out as 127
C7_Witness ==
  /\ UnitDataCase
  /\ ~IsRaise(ret)
  /\ \E idx \in Indices(args.data.shape) :
       args.data.val[idx] = Q(1, 2) /\ ret.data.val[idx] = 127

\* C7 as the claim words it: each element comes out as 255*x rounded to the
\* nearest integer, and 0.5 as 128
C7_ScaledRounded ==
  UnitDataCase =>
    /\ ~IsRaise(ret)
    /\ \A idx \in Indices(args.data.shape) :
         LET x == args.data.val[idx]
             y == ret.data.val[idx]
         IN  /\ QLe(QAbs(QSub(QI(y), QMul(QI(255), x))), Q(1, 2))
             /\ (x = Q(1, 2) => y = 128)

(***************************************************************************)
(* Properties of ITKWriter                                                 *)
(***************************************************************************)
\* the affine of the test on an image of three dimensions
ItkTestCase ==
  /\ Called("ITKWriter.create_backend_obj")
  /\ args.affine = ItkTestAffine
  /\ ndim(args.data) = IF args.channel_dim = None THEN 3 ELSE 4
  /\ Len(ret.size) = 3

\* C8 (as the code has it): for the affine diag(1.4, 1, 1, 1) and a 3D image
\* the spacing set on the object is (1.4, 1, 1), the origin is 0 and the
\* direction is diag(-1, -1, 1): the identity of RAS as LPS has it.
C8_ItkGeometry ==
  ItkTestCase =>
    /\ ret.spacing = <<Q(7, 5), QOne, QOne>>
    /\ ret.origin = <<QZero, QZero, QZero>>
    /\ ret.direction = Diag(<<QI(-1), QI(-1), QOne>>)

\* a 3D array without channels written with the affine of the test
C8_Witness ==
  /\ ItkTestCase
  /\ args.channel_dim = None
  /\ ndim(args.data) = 3
  /\ ret.spacing = <<Q(7, 5), QOne, QOne>>
  /\ ret.direction[1][1] = QI(-1)
  /\ ret.direction[2][2] = QI(-1)
  /\ ret.direction[3][3] = QOne

\* C8 as the claim words it: the spacing is (1.4, 1, 1) and the direction is
\* the identity matrix
C8_DirectionIsIdentity ==
  ItkTestCase => ret.spacing = <<Q(7, 5), QOne, QOne>> /\ ret.direction = Eye(3)

\* an affine of 2 rows or more
LpsCase == Called("ras_to_lps") /\ NRows(args.affine) >= 2

\* C9: for an affine of n rows, n from 2 up, ras_to_lps negates the first
\* min(n - 1, 2) rows and leaves every other row as it is; applied to its own
\* result it gives the affine back.
C9_RasToLps ==
  LpsCase =>
    LET n == NRows(args.affine)
        flipped == IMin(n - 1, 2)
    IN  /\ NRows(ret) = n
        /\ \A i \in 1..n :
             /\ Len(ret[i]) = Len(args.affine[i])
             /\ \A j \in 1..Len(ret[i]) :
                  ret[i][j] = IF i <= flipped THEN QNeg(args.affine[i][j])
                              ELSE args.affine[i][j]
        /\ ras_to_lps(ret) = args.affine

\* a 5 x 5 affine: two rows negated, three kept, and back again
C9_Witness ==
  /\ LpsCase
  /\ NRows(args.affine) = 5
  /\ NCols(args.affine) = 5
  /\ ret[1] # args.affine[1]
  /\ ret[2][2] = QNeg(args.affine[2][2])
  /\ ret[2][2] # QZero
  /\ ret[3] = args.affine[3]
  /\ ras_to_lps(ret) = args.affine

(***************************************************************************)
(* The output shape convert_to_target_affine computes                      *)
(***************************************************************************)
\* the square image of the example, resampled from pixel size a to pixel size
\* t with no output shape given
PixdimCase(a, t) ==
  /\ Called("convert_to_target_affine")
  /\ args.data.shape = <<ExampleSide, ExampleSide>>
  /\ args.affine = Diag(<<a, a, QOne>>)
  /\ args.target_affine = Diag(<<t, t, QOne>>)
  /\ args.output_spatial_shape = None

\* C10: with no output_spatial_shape, resampling a 20x20 image from pixel
\* size (2.0, 2.0) to (3.0, 3.0) gives a 14x14 image, and from (1.5, 1.5) to
\* (3.0, 3.0) a 10x10 image.
C10_ExampleShapes ==
  /\ (PixdimCase(QI(2), QI(3)) =>
        ~IsRaise(ret) /\ ret.path = "resample" /\ ret.data.shape = <<14, 14>>)
  /\ (PixdimCase(Q(3, 2), QI(3)) =>
        ~IsRaise(ret) /\ ret.path = "resample" /\ ret.data.shape = <<10, 10>>)

\* the second example: the shape is computed, and is 10x10
C10_Witness ==
  /\ PixdimCase(Q(3, 2), QI(3))
  /\ ret.path = "resample"
  /\ ret.steps[4] = "compute_shape_offset"
  /\ ret.resample[1].spatial_size = <<10, 10>>
  /\ ret.data.shape = <<10, 10>>

(***************************************************************************)
(* The resampling path of convert_to_target_affine                         *)
(***************************************************************************)
ResampleCase ==
  /\ Called("convert_to_target_affine")
  /\ ~IsRaise(ret)
  /\ ret.path = "resample"

\* the array as it is after the reorientation, which is what is resampled
ReorientedData == apply_orientation(args.data, CallOrnt)

\* the shape the call asks for: the caller's, or the one computed from the
\* reoriented array and the two affines
RequestedShape ==
  IF args.output_spatial_shape # None THEN Get(args.output_spatial_shape)
  ELSE compute_shape_offset(
         ReorientedData.shape,
         MatMul(PaddedAffine(args.data, args.affine), inv_ornt_aff(CallOrnt, args.data.shape)),
         PaddedTarget(args.data, args.affine, args.target_affine)).out_shape

\* s with 1s after it up to n entries, or its first n entries
PaddedOrCut(s, n) == [k \in 1..n |-> IF k <= Len(s) THEN s[k] ELSE 1]

\* C11 (as the code has it): on the resampling path the spatial size asked of
\* the resample primitive, and the leading shape of the returned data, has
\* exactly sr = min(data.ndim, 3) entries: the caller's output_spatial_shape
\* (or the computed shape without one) with 1s after it when it has fewer
\* than sr entries, cut to its first sr when it has more.  The affine returned
\* is target_affine carried to 4x4 at the rank of the data: target_affine
\* itself when that is a 4x4 affine and the data has 3 axes or more.
C11_ResampleShape ==
  ResampleCase =>
    LET sr == IMin(ndim(args.data), 3)
        size == ret.resample[1].spatial_size
    IN  /\ Len(size) = sr
        /\ size = PaddedOrCut(RequestedShape, sr)
        /\ ndim(ret.data) = ndim(args.data)
        /\ \A k \in 1..sr : ret.data.shape[k] = size[k]
        /\ ret.affine = CarriedAffine(args.target_affine, ndim(args.data))
        /\ (IsAffine44(args.target_affine) /\ ndim(args.data) >= 3
              => ret.affine = args.target_affine)

\* a shape of one entry given for an array of 3 axes or more: two 1s are added
C11_Witness ==
  /\ ResampleCase
  /\ ndim(args.data) >= 3
  /\ args.output_spatial_shape = Some(<<2>>)
  /\ ret.resample[1].spatial_size = <<2, 1, 1>>
  /\ FirstN(ret.data.shape, 3) = <<2, 1, 1>>

\* a shape of four entries given for an array of 3 axes or more: cut to three
C11_WitnessCut ==
  /\ ResampleCase
  /\ ndim(args.data) >= 3
  /\ args.output_spatial_shape = Some(<<3, 1, 2, 2>>)
  /\ ret.resample[1].spatial_size = <<3, 1, 2>>
  /\ FirstN(ret.data.shape, 3) = <<3, 1, 2>>

\* C11 as the claim words it, for the targets that are 4x4 affines: on the
\* resampling path the affine returned equals the target_affine of the call
C11_ReturnsTargetItself ==
  ResampleCase /\ IsAffine44(args.target_affine) =>
    /\ Len(ret.resample[1].spatial_size) = IMin(ndim(args.data), 3)
    /\ ret.affine = args.target_affine

\* the call resamples an array that has axes after the third
TrailingAxesCase == ResampleCase /\ ndim(args.data) > 3

\* C12: on the resampling path, for an input with axes after the first three,
\* the shape of the output after its third axis is that of the input, and
\* every element of the output is an element of the input at the same index
\* along the axes after the third (the elements of the input are all
\* different, so that one is its only source); the resample primitive gets
\* those axes as one channel axis in front.  With no axes after the third the
\* primitive gets one channel, and in both cases the output has as many axes
\* as the input.
C12_TrailingAxes ==
  ResampleCase =>
    /\ ndim(ret.data) = ndim(args.data)
    /\ ret.resample[1].batch_shape[1] = 1
    /\ ret.resample[1].batch_shape[2] = Prod(DropN(args.data.shape, 3))
    /\ Len(ret.resample[1].batch_shape) = IMin(ndim(args.data), 3) + 2
    /\ (TrailingAxesCase =>
          /\ DropN(ret.data.shape, 3) = DropN(args.data.shape, 3)
          /\ \A idx \in Indices(ret.data.shape) :
               \E src \in Indices(args.data.shape) :
                 /\ args.data.val[src] = ret.data.val[idx]
                 /\ DropN(src, 3) = DropN(idx, 3))

\* two axes after the third, each of length 2, flattened to 4 channels and
\* restored, with a spatial shape other than the input's
C12_Witness ==
  /\ TrailingAxesCase
  /\ DropN(args.data.shape, 3) = <<2, 2>>
  /\ ret.resample[1].batch_shape[2] = 4
  /\ DropN(ret.data.shape, 3) = <<2, 2>>
  /\ FirstN(ret.data.shape, 3) # FirstN(args.data.shape, 3)

(***************************************************************************)
(* The layout convert_to_channel_last gives                                *)
(***************************************************************************)
ChannelLastCase == Called("convert_to_channel_last")

\* the position (from 1) of the channel axis the call names
ChannelAxis == Axis(ndim(args.data), Get(args.channel_dim))

\* out is the array `in` with its axis c (from 1) moved to the end and, between
\* the other axes and that one, `ones` axes of length 1
MovedLast(in, out, c, ones) ==
  LET n == ndim(in)
      E(k) == 1
  IN  /\ out.shape = RemoveAt(in.shape, c) \o Vec(ones, E) \o <<in.shape[c]>>
      /\ \A idx \in Indices(out.shape) :
           out.val[idx] = in.val[InsertAt(FirstN(idx, n - 1), c, idx[n + ones])]

\* out is the array `in` with `ones` + 1 axes of length 1 after its axes
\* (the last of them the channel axis)
ChannelAppended(in, out, ones) ==
  LET E(k) == 1
  IN  /\ out.shape = in.shape \o Vec(ones + 1, E)
      /\ \A idx \in Indices(out.shape) : out.val[idx] = in.val[FirstN(idx, ndim(in))]

\* the axes of length 1 that spatial_ndim = 3 adds to an array of n axes, one
\* of them the channel axis when `given`
OnesAdded(n, given) == IMax(3 - (IF given THEN n - 1 ELSE n), 0)

\* C13: with channel_dim = c the c-th axis becomes the last one and the other
\* axes keep their order; with channel_dim = None an axis of length 1 is
\* added as the last one; with spatial_ndim = 3 an input of fewer than 3
\* spatial axes gets axes of length 1 right before the channel axis, so that
\* (8, 64, 64) with channel_dim = 0 becomes (64, 64, 1, 8); and for the input
\* (1, 2, 3, 4) with squeeze_end_dims = False and every c in 0..3 the spatial
\* shape of the output is the shape of the input with axis c removed.
C13_Layout ==
  ChannelLastCase =>
    /\ (~args.squeeze_end_dims /\ args.spatial_ndim = None /\ args.channel_dim # None =>
          MovedLast(args.data, ret, ChannelAxis, 0))
    /\ (~args.squeeze_end_dims /\ args.spatial_ndim = None /\ args.channel_dim = None =>
          ChannelAppended(args.data, ret, 0))
    /\ (~args.squeeze_end_dims /\ args.spatial_ndim = Some(3) /\ args.channel_dim # None
          /\ ndim(args.data) <= 4 =>
          MovedLast(args.data, ret, ChannelAxis, OnesAdded(ndim(args.data), TRUE)))
    /\ (~args.squeeze_end_dims /\ args.spatial_ndim = Some(3) /\ args.channel_dim = None
          /\ ndim(args.data) <= 3 =>
          ChannelAppended(args.data, ret, OnesAdded(ndim(args.data), FALSE)))
    /\ (args.data.shape = DocShape /\ args.channel_dim = Some(0) /\ args.spatial_ndim = Some(3) =>
          ret.shape = <<64, 64, 1, 8>>)
    /\ (args.data.shape = ItkTestShape /\ ~args.squeeze_end_dims /\ args.spatial_ndim = Some(3)
          /\ args.channel_dim # None =>
          FirstN(ret.shape, 3) = RemoveAt(ItkTestShape, ChannelAxis))

\* the example of the docstring, with the defaults of the other parameters
C13_Witness ==
  /\ ChannelLastCase
  /\ args.data.shape = DocShape
  /\ args.channel_dim = Some(0)
  /\ args.squeeze_end_dims
  /\ args.spatial_ndim = Some(3)
  /\ ret.shape = <<64, 64, 1, 8>>
  /\ ret.val[<<5, 7, 0, 3>>] = args.data.val[<<3, 5, 7>>]

\* the array of the ITK test with the channel at axis 2: (1, 2, 4) and 3 channels
C13_WitnessItk ==
  /\ ChannelLastCase
  /\ args.data.shape = ItkTestShape
  /\ args.channel_dim = Some(2)
  /\ ~args.squeeze_end_dims
  /\ args.spatial_ndim = Some(3)
  /\ ret.shape = <<1, 2, 4, 3>>

\* what the call gives with squeeze_end_dims = False, its other arguments as
\* they are
Unsqueezed ==
  convert_to_channel_last(args.data, args.channel_dim, FALSE, args.spatial_ndim)

\* small is big without its last axes, all of length 1: same elements
TrailingOnesRemoved(big, small) ==
  /\ ndim(small) <= ndim(big)
  /\ small.shape = FirstN(big.shape, ndim(small))
  /\ \A k \in (ndim(small) + 1)..ndim(big) : big.shape[k] = 1
  /\ \A idx \in Indices(big.shape) : small.val[FirstN(idx, ndim(small))] = big.val[idx]

\* C14: with squeeze_end_dims = True the array returned has no last axis of
\* length 1: it is the channel-last array without its trailing axes of length
\* 1 (the channel axis when it has length 1, then the spatial axes before it
\* as far as they have length 1), with every element kept; with
\* squeeze_end_dims = False and spatial_ndim = 3 the array returned has
\* exactly four axes.
C14_Squeeze ==
  ChannelLastCase =>
    /\ (args.squeeze_end_dims /\ ~IsRaise(ret) =>
          /\ ndim(ret) >= 1
          /\ ret.shape[ndim(ret)] # 1
          /\ With(Unsqueezed, LAMBDA big : TrailingOnesRemoved(big, ret)))
    /\ (~args.squeeze_end_dims /\ args.spatial_ndim = Some(3) =>
          ~IsRaise(ret) /\ ndim(ret) = 4)

\* (H, W) without a channel axis: (H, W, 1, 1) before the squeeze, which
\* removes the channel axis and the third spatial axis
C14_Witness ==
  /\ ChannelLastCase
  /\ args.squeeze_end_dims
  /\ args.spatial_ndim = Some(3)
  /\ args.channel_dim = None
  /\ ndim(args.data) = 2
  /\ ~IsRaise(ret)
  /\ Unsqueezed.shape = args.data.shape \o <<1, 1>>
  /\ ret = args.data

\* squeeze_end_dims = False with spatial_ndim = 3 on an array of 5 axes: four
\* axes are returned
C14_WitnessFour ==
  /\ ChannelLastCase
  /\ ~args.squeeze_end_dims
  /\ args.spatial_ndim = Some(3)
  /\ ndim(args.data) = 5
  /\ ndim(ret) = 4

(***************************************************************************)
(* The stages of create_data_obj                                           *)
(***************************************************************************)
\* create_data_obj of any of the three writers returned an object
AssembledCase ==
  /\ op \in {"create_data_obj", "PILWriter.create_data_obj"}
  /\ ~IsRaise(ret)

\* C15 (as the code has it): a call of create_data_obj that returns has run
\* four stages, each once and in this order, each on what the one before
\* returned.  For NibabelWriter and ITKWriter: get_meta_info,
\* convert_to_channel_last, convert_to_target_affine (on the channel-last
\* array and the affines and shape of the metadata), create_backend_obj (on
\* the converted array and affine).  For PILWriter the third stage is
\* resample_and_clip (on the channel-last array and the spatial_shape of the
\* metadata) and not convert_to_target_affine.
C15_Stages ==
  AssembledCase =>
    /\ Len(ret.stages) = 4
    /\ ret.stages[1] = "get_meta_info"
    /\ ret.stages[2] = "convert_to_channel_last"
    /\ ret.stages[4] = "create_backend_obj"
    /\ ret.channel_last = convert_to_channel_last(args.data, args.channel_dim,
                                                  args.squeeze_end_dims, args.spatial_ndim)
    /\ (args.writer \in {"NibabelWriter", "ITKWriter"} =>
          /\ ret.stages[3] = "convert_to_target_affine"
          /\ ret.meta = get_meta_info(args.metadata)
          /\ ret.converted =
               convert_to_target_affine(ret.channel_last, ret.meta.affine,
                                        IF args.resample THEN ret.meta.original_affine ELSE None,
                                        ret.meta.spatial_shape)
          /\ ret.obj = create_backend_obj(args.writer, ret.converted.data, ret.converted.affine,
                                          args.channel_dim))
    /\ (args.writer = "PILWriter" =>
          /\ ret.stages[3] = "resample_and_clip"
          /\ ret.meta = PIL_get_meta_info(args.metadata)
          /\ ret.clipped = resample_and_clip(ret.channel_last,
                                             IF args.resample THEN ret.meta ELSE None,
                                             args.mode, args.scale, args.error)
          /\ ret.obj = PIL_create_backend_obj(ret.clipped.data, ret.clipped.dtype, TRUE))

\* a call of ITKWriter.create_data_obj in which every stage changes what it
\* is given: the channel-last array is not the input, the converted array is
\* not the channel-last one, and the object holds the converted array
C15_Witness ==
  /\ AssembledCase
  /\ args.writer = "ITKWriter"
  /\ args.channel_dim = Some(0)
  /\ args.resample
  /\ ret.stages[3] = "convert_to_target_affine"
  /\ ret.channel_last # args.data
  /\ ret.converted.data # ret.channel_last
  /\ ret.converted.path = "resample"
  /\ ret.obj.size = FirstN(ret.converted.data.shape, ndim(ret.converted.data) - 1)

\* a call of PILWriter.create_data_obj that returns: its third stage is
\* resample_and_clip
C15_WitnessPIL ==
  /\ AssembledCase
  /\ args.writer = "PILWriter"
  /\ args.resample
  /\ ret.meta # None
  /\ ret.stages[3] = "resample_and_clip"
  /\ ret.clipped.data # ret.channel_last

\* C15 as the claim words it: for every writer the stages are metadata
\* extraction, convert_to_channel_last, convert_to_target_affine and
\* create_backend_obj
C15_SameStagesEveryWriter ==
  AssembledCase =>
    ret.stages = <<"get_meta_info", "convert_to_channel_last", "convert_to_target_affine",
                   "create_backend_obj">>

(***************************************************************************)
(* The comparison of affines in convert_to_target_affine                   *)
(***************************************************************************)
\* |a - b| <= AFFINE_TOL + NP_RTOL * |b|
CloseTo(a, b) ==
  LET diff == QAbs(QSub(a, b))
  IN  QLe(diff, AFFINE_TOL) \/ QLe(QDiv(QSub(diff, AFFINE_TOL), NP_RTOL), QAbs(b))

\* every entry of A is close to the entry of B in its place, B on the right
AllCloseTo(A, B) == \A i \in 1..NRows(A), j \in 1..NCols(A) : CloseTo(A[i][j], B[i][j])

\* a call with a target that returned
ComparedCase ==
  /\ Called("convert_to_target_affine")
  /\ args.target_affine # None
  /\ ~IsRaise(ret)

CallAffine == PaddedAffine(args.data, args.affine)
CallTarget == PaddedTarget(args.data, args.affine, args.target_affine)
\* the affine after the reorientation
CallOrientedAffine == MatMul(CallAffine, inv_ornt_aff(CallOrnt, args.data.shape))

\* C16 (as the code has it): the comparison of the fast path and of the
\* orientation path is true if and only if every entry a of the affine and the
\* entry b of target_affine in its place have |a - b| <= 1e-3 + 1e-5 * |b|.
\* Entries that differ by at most 1e-3 always pass; entries that differ by
\* more pass when the entry of the target is large enough, so the outcome
\* depends on the magnitude of the entries and on which affine is the target.
C16_AffineTest ==
  ComparedCase =>
    /\ (ret.path = "fast" <=> AllCloseTo(CallAffine, CallTarget))
    /\ (ret.path = "orient" <=>
          ~AllCloseTo(CallAffine, CallTarget) /\ AllCloseTo(CallOrientedAffine, CallTarget))
    /\ (WithinTol(CallAffine, CallTarget, AFFINE_TOL) => ret.path = "fast")

\* the fast path taken for a target whose origin is 0.002 from that of the
\* affine, at 1000 from 0
C16_Witness ==
  /\ ComparedCase
  /\ args.relation = "far"
  /\ ret.path = "fast"
  /\ ~WithinTol(CallAffine, CallTarget, AFFINE_TOL)
  /\ QAbs(QSub(CallAffine[1][4], CallTarget[1][4])) = Q(1, 500)

\* the order matters: an entry 0 and an entry 0.00100001 are equal when the
\* second is the target's
C16_WitnessEqual ==
  /\ ComparedCase
  /\ args.relation = "near"
  /\ args.affine = NearAffine
  /\ ret.path = "fast"

\* and are not equal (the array is resampled) when the first is the target's
C16_WitnessNotEqual ==
  /\ ComparedCase
  /\ args.relation = "near"
  /\ args.target_affine = NearAffine
  /\ ret.path = "resample"

\* C16 as the claim words it: the comparison is true if and only if every
\* pair of entries differs by at most 1e-3
C16_AbsoluteOnly ==
  ComparedCase =>
    (ret.path = "fast" <=> WithinTol(CallAffine, CallTarget, AFFINE_TOL))

(***************************************************************************)
(* The single channel and the value range in resample_and_clip             *)
(***************************************************************************)
\* resample_and_clip returned, for an array (H, W, 1)
SingleChannelCase ==
  /\ Called("resample_and_clip")
  /\ ~IsRaise(ret)
  /\ ndim(args.data) = 3
  /\ args.data.shape[3] = 1

\* C17 as the claim words it: for a channel-last input of rank 3 whose last
\* axis has length 1, the result has that axis dropped, with or without an
\* output shape: it never ends in an axis of length 1.
C17_SingleChannelDropped ==
  SingleChannelCase =>
    /\ ndim(ret.data) = 2
    /\ ret.data.shape[ndim(ret.data)] # 1

\* what the code does: the axis is dropped if and only if an output shape is
\* given
C17_DroppedIffShapeGiven ==
  SingleChannelCase => (ndim(ret.data) = 2 <=> args.output_spatial_shape # None)

\* with no output shape an array (H, W, 1) scaled by 255 comes back (H, W, 1)
C17_Witness ==
  /\ SingleChannelCase
  /\ args.output_spatial_shape = None
  /\ args.scale = Some(UINT8_MAX)
  /\ ret.data.shape = args.data.shape
  /\ ret.data.shape[3] = 1

\* resample_and_clip resampled to an output shape and did not scale: what it
\* returned is what the resampling gave
ResampledUnscaledCase ==
  /\ Called("resample_and_clip")
  /\ ~IsRaise(ret)
  /\ args.output_spatial_shape # None
  /\ args.scale \in {None, Some(0)}

\* C18: when resample_and_clip resamples to an output shape, every value of
\* the result (before any scaling) lies between the least and the greatest
\* value of the data before the resampling, in every interpolation mode; in
\* mode nearest every value of the result is a value of the input; the corner
\* alignment handed to the resize is null for nearest and area and false for
\* the other modes.
C18_ValueRange ==
  /\ (ResampledUnscaledCase =>
        /\ ret.data.shape[1] = Get(args.output_spatial_shape)[1]
        /\ ret.data.shape[2] = Get(args.output_spatial_shape)[2]
        /\ \A x \in Elements(ret.data) :
             QLe(ArrayMin(args.data), x) /\ QLe(x, ArrayMax(args.data))
        /\ (args.mode = "nearest" => Elements(ret.data) \subseteq Elements(args.data)))
  /\ (Called("resample_and_clip") /\ ~IsRaise(ret) /\ args.output_spatial_shape # None =>
        ret.align_corners = IF args.mode \in {"nearest", "area"} THEN None ELSE Some(FALSE))

\* a bicubic resize that goes a quarter over the values it reads: the result
\* is cut at the greatest value of the input
C18_Witness ==
  /\ ResampledUnscaledCase
  /\ args.mode = "bicubic"
  /\ args.error = Q(1, 4)
  /\ ret.align_corners = Some(FALSE)
  /\ ArrayMax(ret.data) = ArrayMax(args.data)
  /\ \E x \in Elements(ret.data) : x \notin Elements(args.data)

(***************************************************************************)
(* The number of spatial axes convert_to_channel_last gives                *)
(***************************************************************************)
\* a call with a spatial_ndim and without the squeeze: what it returns is the
\* array as adjusted
AdjustedCase ==
  /\ ChannelLastCase
  /\ ~args.squeeze_end_dims
  /\ args.spatial_ndim # None

\* the spatial axes of the input: all but the channel axis
SpatialShape ==
  IF args.channel_dim = None THEN args.data.shape ELSE RemoveAt(args.data.shape, ChannelAxis)

ChannelLength == IF args.channel_dim = None THEN 1 ELSE args.data.shape[ChannelAxis]

\* the index in the input of the element with spatial index sp and channel ch
InputIndex(sp, ch) == IF args.channel_dim = None THEN sp ELSE InsertAt(sp, ChannelAxis, ch)

\* out has n spatial axes and the channel axis: the first n spatial axes of
\* the input (with axes of length 1 after them when it has fewer), and of
\* the spatial axes of the input after the n-th only the index 0
AdjustedTo(out, n) ==
  LET m == Len(SpatialShape)
      S(k) == IF k <= m THEN SpatialShape[k] ELSE 1
  IN  /\ out.shape = Vec(n, S) \o <<ChannelLength>>
      /\ \A idx \in Indices(out.shape) :
           out.val[idx] =
             args.data.val[InputIndex([k \in 1..m |-> IF k <= n THEN idx[k] ELSE 0], idx[n + 1])]
      /\ \A src \in Indices(args.data.shape) :
           LET sp == IF args.channel_dim = None THEN src ELSE RemoveAt(src, ChannelAxis)
           IN  (\E k \in (n + 1)..m : sp[k] # 0) => args.data.val[src] \notin Elements(out)

\* C19 (as the code has it): for every spatial_ndim n of 1 or more, after the
\* adjustment (before the squeeze) the array has exactly n spatial axes and
\* then the channel axis; when the input has more than n spatial axes, the
\* ones dropped are those right before the channel axis and only their index
\* 0 is kept (the elements at their other indices are not in the output);
\* when it has fewer, axes of length 1 are put right before the channel axis.
\* spatial_ndim = 0 is taken as no spatial_ndim: the array keeps the spatial
\* axes it has.
C19_SpatialNdim ==
  AdjustedCase =>
    /\ ~IsRaise(ret)
    /\ (Get(args.spatial_ndim) >= 1 =>
          ndim(ret) = Get(args.spatial_ndim) + 1 /\ AdjustedTo(ret, Get(args.spatial_ndim)))
    /\ (Get(args.spatial_ndim) = 0 => AdjustedTo(ret, Len(SpatialShape)))

\* an array of 5 axes, 4 of them spatial, brought to 3 spatial axes: elements
\* of the input are left out
C19_Witness ==
  /\ AdjustedCase
  /\ args.spatial_ndim = Some(3)
  /\ ndim(args.data) = 5
  /\ args.channel_dim # None
  /\ ndim(ret) = 4
  /\ Elements(ret) # Elements(args.data)

\* an array of 1 axis brought to 2 spatial axes
C19_WitnessPadded ==
  /\ AdjustedCase
  /\ args.spatial_ndim = Some(2)
  /\ ndim(args.data) = 1
  /\ args.channel_dim = None
  /\ ret.shape = args.data.shape \o <<1, 1>>

\* C19 as the claim words it: for every spatial_ndim that is not null the
\* array has exactly that many spatial axes and then the channel axis
C19_EveryNonNull ==
  AdjustedCase => ndim(ret) = Get(args.spatial_ndim) + 1

(***************************************************************************)
(* Whether convert_to_channel_last returns                                 *)
(***************************************************************************)
\* C20 as the claim words it: convert_to_channel_last returns an array for
\* every input, every channel_dim, every spatial_ndim and both values of
\* squeeze_end_dims, the inputs whose axes all have length 1 among them; no
\* loop raises an error.
C20_AlwaysReturns ==
  ChannelLastCase => ~IsRaise(ret) /\ ndim(ret) >= 0

\* what the code does: the call raises (IndexError, from data.shape[-1] of an
\* array with no axis left) if and only if squeeze_end_dims is set and every
\* axis of the channel-last array has length 1; every other call returns an
\* array
C20_RaisesIffAllOnes ==
  ChannelLastCase =>
    (IsRaise(ret) <=>
       args.squeeze_end_dims /\ \A k \in 1..ndim(Unsqueezed) : Unsqueezed.shape[k] = 1)

\* an array (1, 1) with channel_dim = 0 and the defaults: (1, 1, 1, 1) before
\* the squeeze, which removes every axis and then raises IndexError
C20_Witness ==
  /\ ChannelLastCase
  /\ args.data.shape = <<1, 1>>
  /\ args.channel_dim = Some(0)
  /\ args.squeeze_end_dims
  /\ args.spatial_ndim = Some(3)
  /\ Unsqueezed.shape = <<1, 1, 1, 1>>
  /\ IsRaise(ret)
  /\ ret.raise = "IndexError"

(***************************************************************************)
(* The geometry ITKWriter.create_backend_obj sets on the object            *)
(***************************************************************************)
\* a call of create_backend_obj that returned an object
ItkObjectCase == Called("ITKWriter.create_backend_obj") /\ ~IsRaise(ret)

\* entry (i, j) of the affine of the call, padded to the dimension of the
\* image and converted to LPS: the first two rows change sign
LpsEntry(i, j) ==
  LET P == to_affine_nd(Len(ret.size), args.affine)
  IN  IF i <= 2 THEN QNeg(P[i][j]) ELSE P[i][j]

\* the sum of the squares of column j of the linear block
SquaredNorm(j) ==
  LET d == Len(ret.size)
      E(i) == LpsEntry(i, j)
  IN  SumSquares(Vec(d, E), d)

\* C21: on every object create_backend_obj returns, each spacing entry is
\* above 0 and is the Euclidean norm of its column of the LPS linear block
\* (1 when the norm is 0), each direction entry times the spacing of its
\* column is the entry of the linear block, and the origin is the
\* translation column of the LPS affine.
C21_ItkSpacingDirectionOrigin ==
  ItkObjectCase =>
    LET d == Len(ret.size)
    IN  /\ Len(ret.spacing) = d /\ Len(ret.origin) = d /\ NRows(ret.direction) = d
        /\ \A j \in 1..d :
             LET sp == ret.spacing[j]
             IN  /\ QLt(QZero, sp)
                 /\ IF SquaredNorm(j) = QZero THEN sp = QOne
                    ELSE QMul(sp, sp) = SquaredNorm(j)
                 /\ \A i \in 1..d : QMul(ret.direction[i][j], sp) = LpsEntry(i, j)
        /\ \A i \in 1..d : ret.origin[i] = LpsEntry(i, d + 1)

\* a 3D image with an affine whose first two columns are not along an axis:
\* spacing (5, 5, 2) and the direction of a rotation
C21_Witness ==
  /\ ItkObjectCase
  /\ Len(ret.size) = 3
  /\ NRows(args.affine) = 4
  /\ args.affine[1][2] = QI(-4)
  /\ ret.spacing = <<QI(5), QI(5), QI(2)>>
  /\ ret.direction[1][2] = Q(4, 5)
  /\ ret.origin = <<QI(-1), QZero, QZero>>

\* a column of norm 0: the spacing is 1 and the direction column is 0
C21_WitnessZeroNorm ==
  /\ ItkObjectCase
  /\ Len(ret.size) = 3
  /\ args.affine = SingularAffine
  /\ SquaredNorm(1) = QZero
  /\ ret.spacing = <<QOne, QOne, QOne>>
  /\ \A i \in 1..3 : ret.direction[i][1] = QZero

(***************************************************************************)
(* The axis ITKWriter.create_data_obj hands to ITK as the vector axis      *)
(***************************************************************************)
\* a call of ITKWriter.create_data_obj with a channel_dim that returned
ItkVectorCase ==
  /\ Called("create_data_obj")
  /\ args.writer = "ITKWriter"
  /\ args.channel_dim # None
  /\ ~IsRaise(ret)

\* the loop of convert_to_channel_last removes the channel axis, which is the
\* last one, when it is told to squeeze and the channel has length 1
ChannelSurvives == ~args.squeeze_end_dims \/ ChannelLength > 1

\* the spatial axes of the array given to create_backend_obj: all but the
\* channel axis, when there still is one
CanonicalSpatialShape ==
  LET shape == ret.converted.data.shape
  IN  IF ChannelSurvives THEN FirstN(shape, Len(shape) - 1) ELSE shape

\* C22 (as the claim words it): with a channel_dim, the components of a
\* pixel of the ITK image are the input's channel axis and the size of the
\* image is the spatial shape of the canonicalized array, whatever the
\* shape and squeeze_end_dims are.
C22_VectorAxisIsChannel ==
  ItkVectorCase =>
    /\ ret.obj.components = ChannelLength
    /\ ret.obj.size = CanonicalSpatialShape

\* what the code does: the last axis of the array it is given becomes the
\* vector axis, which is the input's channel axis if and only if that axis
\* survived the squeeze
C22_VectorAxisIffChannelSurvives ==
  ItkVectorCase =>
    /\ ret.obj.components = ret.converted.data.shape[ndim(ret.converted.data)]
    /\ ret.obj.size = FirstN(ret.converted.data.shape, ndim(ret.converted.data) - 1)
    /\ ChannelSurvives <=> (/\ ret.obj.components = ChannelLength
                            /\ ret.obj.size = CanonicalSpatialShape)

\* an array of one channel and spatial shape (2, 1, 3) written with
\* squeeze_end_dims: the image has size (2, 1) and pixels of 3 components
C22_Witness ==
  /\ ItkVectorCase
  /\ args.data.shape = <<1, 2, 1, 3>>
  /\ args.squeeze_end_dims
  /\ ChannelLength = 1
  /\ ret.channel_last.shape = <<2, 1, 3>>
  /\ ret.obj.components = 3
  /\ ret.obj.size = <<2, 1>>

\* the same array without squeeze_end_dims: size (2, 1, 3), one component
C22_WitnessKept ==
  /\ ItkVectorCase
  /\ args.data.shape = <<1, 2, 1, 3>>
  /\ ~args.squeeze_end_dims
  /\ ret.obj.components = 1
  /\ ret.obj.size = <<2, 1, 3>>

\* one channel and one spatial axis, squeezed to one axis: no image is made
C22_WitnessNoDimension ==
  /\ Called("create_data_obj")
  /\ args.writer = "ITKWriter"
  /\ args.channel_dim # None
  /\ args.data.shape = SingleChannel2D
  /\ args.squeeze_end_dims
  /\ IsRaise(ret)

(***************************************************************************)
(* What convert_to_target_affine reads of its affines                      *)
(***************************************************************************)
\* two calls on one array, both returned
TwiceCase ==
  /\ Called("convert_to_target_affine twice")
  /\ ~IsRaise(ret.first)
  /\ ~IsRaise(ret.second)

\* sr = min(data.ndim, 3)
CallRank == IMin(ndim(args.data), 3)

\* a and b have the same entries in the first sr rows and columns and in the
\* first sr entries of the last column
AgreeOnKept(a, b, sr) ==
  IF a = None \/ b = None THEN a = b
  ELSE /\ NRows(a) > sr /\ NRows(b) > sr
       /\ \A i \in 1..sr :
            /\ \A j \in 1..sr : a[i][j] = b[i][j]
            /\ a[i][NCols(a)] = b[i][NCols(b)]

\* the two calls differ in what they were given, but not in the kept parts
SameKeptParts ==
  /\ AgreeOnKept(args.affine, args.affine2, CallRank)
  /\ AgreeOnKept(args.target_affine, args.target_affine2, CallRank)

IsMat44(A) == NRows(A) = 4 /\ \A i \in 1..4 : Len(A[i]) = 4

\* C23: two calls of convert_to_target_affine on the same array, whose
\* affines and targets agree in the first sr = min(data.ndim, 3) rows and
\* columns and in the translation, take the same path and return the same
\* array and the same affine; and the affine every call returns, on each of
\* the three paths, is a 4 x 4 matrix.
C23_KeptPartsDecide ==
  /\ (TwiceCase /\ SameKeptParts) =>
        /\ ret.first.path = ret.second.path
        /\ ret.first.data = ret.second.data
        /\ ret.first.affine = ret.second.affine
        /\ ret.first.resample = ret.second.resample
  /\ TwiceCase => IsMat44(ret.first.affine) /\ IsMat44(ret.second.affine)
  /\ (Called("convert_to_target_affine") /\ ~IsRaise(ret)) =>
        /\ ret.path \in {"fast", "orient", "resample"}
        /\ IsMat44(ret.affine)

\* the two calls were given different affines and different targets
GivenDiffer ==
  /\ args.affine # args.affine2
  /\ args.target_affine # args.target_affine2

\* the (1, 5) image of test_write_2d, resampled in both calls to the same
\* array although the affines differ in the third axis and the targets in
\* the third axis and the corner
C23_Witness ==
  /\ TwiceCase
  /\ SameKeptParts
  /\ GivenDiffer
  /\ args.data.shape = <<1, 5>>
  /\ ret.first.path = "resample"
  /\ ret.first = ret.second
  /\ ret.first.data.shape = <<1, 3>>

\* the same on the orientation path, for an array of four axes with the
\* affines differing in the fourth axis
C23_WitnessOrient ==
  /\ TwiceCase
  /\ SameKeptParts
  /\ GivenDiffer
  /\ ndim(args.data) = 4
  /\ ret.first.path = "orient"
  /\ ret.second.path = "orient"

\* and on the fast path, for an array of one axis
C23_WitnessFast ==
  /\ TwiceCase
  /\ SameKeptParts
  /\ args.affine # args.affine2
  /\ ndim(args.data) = 1
  /\ ret.first.path = "fast"
  /\ ret.second.path = "fast"

\* calls whose affines differ in a kept part take different paths
C23_WitnessKeptDiffer ==
  /\ TwiceCase
  /\ ~SameKeptParts
  /\ ret.first.path # ret.second.path

====
